---- MODULE Spec2Model ----
(***************************************************************************)
(* Serial Studio: the plugin broadcast server (Plugins::Server), the       *)
(* frame parser's script loading (JSON::FrameParser), the reading of a     *)
(* group from a project file (JSON::Group), and the ingestion pipeline     *)
(* that frames, decodes and maps the transport's bytes.                    *)
(*                                                                         *)
(* The server is a single-threaded Qt object.  Every slot runs to          *)
(* completion inside one dispatched event, so each slot is one action.     *)
(* Signals connected with Qt::QueuedConnection (frameChanged,              *)
(* dataReceived) are modelled by FIFO queues between the emission and the  *)
(* slot; signals connected directly (timeout1Hz, newConnection, readyRead, *)
(* disconnected, errorOccurred) run the slot in the emitting step.         *)
(***************************************************************************)
EXTENDS Integers, Sequences, FiniteSets, TLC

(***************************************************************************)
(* Bounds of the model.                                                    *)
(***************************************************************************)
\* TCP sockets created during a run (a socket object is never reused)
MaxSockets == 2
\* StructuredFrames produced by the FrameBuilder during a run
MaxFrames == 3
\* raw chunks produced by the I/O manager during a run
MaxRaw == 1
\* chunks a plugin may inject into the transport during a run
MaxInbound == 2
\* queued, not yet delivered frameChanged notifications
MaxQueue == 1
\* distinct payloads a plugin may send
NumChunks == 2
\* frames produced in the runs that also carry raw chunks
MaxRawFrames == 1
\* frames, raw chunks and connections of the runs that look at write order
MaxFifoFrames == 2
MaxFifoRaw == 2
MaxFifoSockets == 1
\* calls of loadScript during a run, the constructor's included
MaxLoads == 3
\* distinct frames the frame builder gives to parse()
NumLiveFrames == 1
\* length of a title, entries of a datasets array
MaxTextLen == 2
MaxDatasets == 2
\* bytes the transport delivers to the framer in a run
MaxStream == 6
\* bytes of one read of the framer's byte stream
MaxChunk == 2
\* frames the framer hands to the frame builder in a run
MaxCycles == 2
\* bytes the transport delivers to the frame builder in a run
MaxBuilderBytes == 8
\* colours of a theme's palette
MaxPalette == 2
\* datasets of a multiplot group
MaxPlotDatasets == 2
\* field indexes of the datasets of a multiplot group
MaxFieldIndex == 3

Sockets == 1..MaxSockets
\* nextPendingConnection() returning nullptr
NullSocket == 0
ByteChunks == 1..NumChunks

VARIABLES
  m_enabled,   \* Server::m_enabled
  m_sockets,   \* Server::m_sockets, the active connection set (a list)
  m_frames,    \* Server::m_frames, the PendingBatch
  listening,   \* whether m_server.listen() succeeded in the constructor
  sockState,   \* per socket: "unborn", "open", "unwritable", "gone"
  written,     \* per socket: the messages socket->write() was given, in order
  ioWritten,   \* the chunks given to IO::Manager::writeData, in order
  frameQueue,  \* frameChanged notifications posted and not yet delivered
  rawQueue,    \* dataReceived notifications posted and not yet delivered
  nextFrame,   \* number of StructuredFrames produced so far
  nextRaw,     \* number of raw chunks produced so far
  lastOp,      \* history: the slot that ran last, when it is one that sends,
               \* forwards, reports or accepts, with the bytes or the socket
               \* it was given; <<"none", 0>> after any other step
  tickMark,    \* history: nextFrame at the last flush tick that found the
               \* notification queue empty; -1 after a tick that did not
  earlyFrame   \* history: a frame was produced after the last flush tick
               \* and before the last connection was accepted

serverVars == <<m_enabled, m_sockets, m_frames, listening, sockState, written,
                ioWritten, frameQueue, rawQueue, nextFrame, nextRaw, lastOp,
                tickMark, earlyFrame>>

VARIABLES
  m_engine,         \* FrameParser::m_engine: the value of the global property
                    \* "parse" of the script engine
  m_parseFunction,  \* FrameParser::m_parseFunction
  m_separator,      \* ProjectModel::m_separator, the configured separator
  loadCount,        \* number of loadScript calls so far
  parserOp,         \* history: the FrameParser operation that ran last
  loadArg,          \* history: the script given to the last loadScript
  loadResult,       \* history: what the last loadScript returned
  message,          \* history: the message box the last operation showed
  smokeCalls,       \* history: the calls the last loadScript made to parse
  called,           \* history: the value the last parse() invoked, its arguments
  parseOut          \* history: the list the last parse() returned

parserVars == <<m_engine, m_parseFunction, m_separator, loadCount, parserOp,
                loadArg, loadResult, message, smokeCalls, called, parseOut>>

VARIABLES
  m_groupId,   \* Group::m_groupId
  m_title,     \* Group::m_title
  m_widget,    \* Group::m_widget
  m_datasets,  \* Group::m_datasets
  readArg,     \* the object read() is given
  readDone,    \* whether read() has run
  readResult   \* what read() returned

groupVars == <<m_groupId, m_title, m_widget, m_datasets, readArg, readDone,
               readResult>>

VARIABLES
  detection,      \* the configured FrameDetection mode
  decoderMethod,  \* the configured DecoderMethod
  framerState,    \* StreamFramer: "Idle" or "Collecting"
  buffer,         \* StreamFramer: the accumulation buffer
  closed,         \* whether the transport has closed
  datasetValues,  \* FrameBuilder: the current value of every Dataset
  stream,         \* history: the bytes the transport delivered, in order
  lastRead,       \* history: the bytes of the last read event
  emitted,        \* history: the frames StreamFramer emitted, in order
  discarded,      \* history: the bytes dropped when the transport closed
  built,          \* history: the StructuredFrames built, in order
  log             \* history: what FrameBuilder did, in order: <<"built", id>>
                  \* and <<"dashboard", id>>

pipelineVars == <<detection, decoderMethod, framerState, buffer, closed,
                  datasetValues, stream, lastRead, emitted, discarded, built,
                  log>>

VARIABLES
  handoffLog   \* history, kept by the runs that watch the queued handoff:
               \* <<"produced", frame, enabled>> and <<"delivered", frame,
               \* enabled>> with the value of m_enabled at that moment

VARIABLES
  m_textEdit,        \* the text of the code editor, known as the script it is
  modified,          \* m_textEdit.document()->isModified()
  m_frameParserCode, \* ProjectModel::frameParserCode()
  saveResult         \* what the last save() returned

editorVars == <<m_textEdit, modified, m_frameParserCode, saveResult>>

VARIABLES
  readBefore   \* history: the object the group read at its previous read(),
               \* an object without keys when it has read none

VARIABLES
  plotDatasets,   \* the datasets of the widget's group: field index, min, max
  widget_colors,  \* the palette of the theme, colours[i] for position i - 1
  m_data,         \* the curves; a curve is the sequence of its y values
  m_minY,
  m_maxY,
  m_colors,
  colorReads,     \* the palette positions the last onThemeChanged read
  dividedByZero,  \* the last onThemeChanged evaluated x % 0
  trapped,        \* the process was ended by that division
  rangeChanged,   \* the last calculateAutoScaleRange emitted rangeChanged
  plotOp          \* the last operation of the widget

plotVars == <<plotDatasets, widget_colors, m_data, m_minY, m_maxY, m_colors,
              colorReads, dividedByZero, trapped, rangeChanged, plotOp>>

extraVars == <<handoffLog, editorVars, readBefore, plotVars>>

nonServerVars == <<parserVars, groupVars, pipelineVars, extraVars>>

vars == <<serverVars, parserVars, groupVars, pipelineVars, extraVars>>

Range(s) == {s[i] : i \in 1..Len(s)}

(***************************************************************************)
(* Messages on the wire.  A message is the compact JSON document followed  *)
(* by "\n"; the document is a single key with its items.                   *)
(***************************************************************************)
\* JSON::Frame::serialize(): the frame's JSON object
Serialize(frame) == [tag |-> "json", val |-> frame]

\* QByteArray::toBase64(), as a string
ToBase64(data) == [tag |-> "base64", val |-> data]

RECURSIVE FrameArray(_)
\* lines 223-230: one {"data": frame} object per pending frame, in list order
FrameArray(frames) ==
  IF frames = <<>> THEN <<>>
  ELSE <<Serialize(Head(frames))>> \o FrameArray(Tail(frames))

\* BatchMessage with the loop of lines 224-230 started at i = 1
BatchMessage_DropsFirst(frames) ==
  [key |-> "frames", items |-> FrameArray(Tail(frames)), end |-> "\n"]

\* lines 236-239: {"frames": array} in compact form, plus "\n"
BatchMessage(frames) ==
  [key |-> "frames", items |-> FrameArray(frames), end |-> "\n"]

\* lines 272-277: {"data": base64} in compact form, plus "\n"
RawMessage(data) ==
  [key |-> "data", items |-> <<ToBase64(data)>>, end |-> "\n"]

\* QIODevice::isWritable() of a socket
IsWritable(socket) == sockState[socket] = "open"

\* WriteToAll without the isWritable() test
WriteToAll_IgnoreWritable(sockets, json) ==
  [s \in Sockets |->
     IF s \in Range(sockets) /\ s # NullSocket
     THEN Append(written[s], json)
     ELSE written[s]]

\* the Q_FOREACH loops: write json to every non-null writable socket of the list
WriteToAll(sockets, json) ==
  [s \in Sockets |->
     IF s \in Range(sockets) /\ s # NullSocket /\ IsWritable(s)
     THEN Append(written[s], json)
     ELSE written[s]]

(***************************************************************************)
(* List surgery of removeConnection and setEnabled.  Indices are the       *)
(* code's 0-based ones; a TLA+ sequence is 1-based.                        *)
(***************************************************************************)
\* removeAt that takes the last element whatever the index
RemoveAt_Last(list, i) == SubSeq(list, 1, Len(list) - 1)

\* QList::removeAt(i)
RemoveAt(list, i) == SubSeq(list, 1, i) \o SubSeq(list, i + 2, Len(list))

\* RemoveLoop whose comparison never matches
RemoveLoop_NoRemove(list, socket, i) == list

RECURSIVE RemoveLoop(_, _, _)
\* lines 99-106: on a match the element is removed and i is reset to 0,
\* then the loop's ++i runs
RemoveLoop(list, socket, i) ==
  IF i >= Len(list) THEN list
  ELSE IF list[i + 1] = socket
       THEN RemoveLoop(RemoveAt(list, i), socket, 0 + 1)
       ELSE RemoveLoop(list, socket, i + 1)

RECURSIVE AbortLoop(_, _, _)
\* lines 125-134: socket->abort() on a connected socket emits disconnected(),
\* which is connected (line 186) directly to removeConnection: the slot runs
\* inside abort() and removes the socket from m_sockets while the loop is
\* still indexing it.  The result is the set of sockets abort() was called on.
AbortLoop(list, i, aborted) ==
  IF i >= Len(list) THEN aborted
  ELSE LET socket == list[i + 1]
       IN AbortLoop(RemoveLoop(list, socket, 0), i + 1, aborted \cup {socket})

(***************************************************************************)
(* InitServer: the server after its constructor (lines 36-61).             *)
(***************************************************************************)
InitServer ==
  /\ m_enabled = FALSE
  /\ m_sockets = <<>>
  /\ m_frames = <<>>
  /\ listening \in BOOLEAN
  /\ sockState = [s \in Sockets |-> "unborn"]
  /\ written = [s \in Sockets |-> <<>>]
  /\ ioWritten = <<>>
  /\ frameQueue = <<>>
  /\ rawQueue = <<>>
  /\ nextFrame = 0
  /\ nextRaw = 0
  /\ lastOp = <<"Server", 0>>
  /\ tickMark = -1
  /\ earlyFrame = FALSE

(***************************************************************************)
(* The slots.                                                              *)
(***************************************************************************)
\* lines 116-142
setEnabled(enabled) ==
  /\ m_enabled' = enabled
  /\ IF ~enabled
     THEN /\ sockState' = [s \in Sockets |->
                IF s \in AbortLoop(m_sockets, 0, {}) THEN "gone"
                ELSE sockState[s]]
          /\ m_sockets' = <<>>
     ELSE UNCHANGED <<sockState, m_sockets>>
  /\ m_frames' = <<>>
  /\ lastOp' = <<"none", 0>>
  /\ UNCHANGED nonServerVars
  /\ UNCHANGED <<listening, written, ioWritten, frameQueue, rawQueue,
                 nextFrame, nextRaw, tickMark, earlyFrame>>

\* lines 91-111; the sender is a socket whose disconnected() signal fired
removeConnection(socket) ==
  /\ sockState[socket] \in {"open", "unwritable"}
  /\ m_sockets' = RemoveLoop(m_sockets, socket, 0)
  /\ sockState' = [sockState EXCEPT ![socket] = "gone"]
  /\ lastOp' = <<"none", 0>>
  /\ UNCHANGED nonServerVars
  /\ UNCHANGED <<m_enabled, m_frames, listening, written, ioWritten,
                 frameQueue, rawQueue, nextFrame, nextRaw, tickMark, earlyFrame>>

\* onDataReceived without the enabled() test
onDataReceived_NoEnabledCheck(socket, data) ==
  /\ sockState[socket] \in {"open", "unwritable"}
  /\ Len(ioWritten) < MaxInbound
  /\ ioWritten' = Append(ioWritten, data)
  /\ lastOp' = <<"onDataReceived", data>>
  /\ UNCHANGED nonServerVars
  /\ UNCHANGED <<m_enabled, m_sockets, m_frames, listening, sockState,
                 written, frameQueue, rawQueue, nextFrame, nextRaw, tickMark,
                 earlyFrame>>

\* lines 147-155; the sender is a socket whose readyRead() signal fired
onDataReceived(socket, data) ==
  /\ sockState[socket] \in {"open", "unwritable"}
  /\ Len(ioWritten) < MaxInbound
  /\ IF m_enabled /\ socket # NullSocket
     THEN ioWritten' = Append(ioWritten, data)
     ELSE UNCHANGED ioWritten
  /\ lastOp' = <<"onDataReceived", data>>
  /\ UNCHANGED nonServerVars
  /\ UNCHANGED <<m_enabled, m_sockets, m_frames, listening, sockState,
                 written, frameQueue, rawQueue, nextFrame, nextRaw, tickMark,
                 earlyFrame>>

\* acceptConnection without the block of lines 172-181
acceptConnection_IgnoreEnabled(socket) ==
  /\ listening
  /\ socket # NullSocket
  /\ sockState[socket] = "unborn"
  /\ \A s \in Sockets : s < socket => sockState[s] # "unborn"
  /\ sockState' = [sockState EXCEPT ![socket] = "open"]
  /\ m_sockets' = Append(m_sockets, socket)
  /\ earlyFrame' = (nextFrame # tickMark)
  /\ lastOp' = <<"acceptConnection", socket>>
  /\ UNCHANGED nonServerVars
  /\ UNCHANGED <<m_enabled, m_frames, listening, written, ioWritten,
                 frameQueue, rawQueue, nextFrame, nextRaw, tickMark>>

\* lines 160-200; socket is what nextPendingConnection() returns
acceptConnection(socket) ==
  /\ listening
  /\ socket # NullSocket =>
       /\ sockState[socket] = "unborn"
       /\ \A s \in Sockets : s < socket => sockState[s] # "unborn"
  /\ IF socket = NullSocket /\ m_enabled
     THEN UNCHANGED <<m_sockets, sockState>>
     ELSE IF ~m_enabled
          THEN /\ sockState' = IF socket # NullSocket
                               THEN [sockState EXCEPT ![socket] = "gone"]
                               ELSE sockState
               /\ UNCHANGED m_sockets
          ELSE /\ sockState' = [sockState EXCEPT ![socket] = "open"]
               /\ m_sockets' = Append(m_sockets, socket)
  /\ earlyFrame' = IF m_enabled /\ socket # NullSocket
                   THEN nextFrame # tickMark
                   ELSE earlyFrame
  /\ lastOp' = <<"acceptConnection", socket>>
  /\ UNCHANGED nonServerVars
  /\ UNCHANGED <<m_enabled, m_frames, listening, written, ioWritten,
                 frameQueue, rawQueue, nextFrame, nextRaw, tickMark>>

\* sendProcessedData without the clear of lines 253-254
sendProcessedData_NoClear ==
  /\ IF ~m_enabled THEN UNCHANGED written
     ELSE IF Len(m_frames) <= 0 THEN UNCHANGED written
     ELSE IF Len(m_sockets) < 1 THEN UNCHANGED written
     ELSE written' = WriteToAll(m_sockets, BatchMessage(m_frames))
  /\ UNCHANGED m_frames
  /\ lastOp' = <<"sendProcessedData", 0>>
  /\ tickMark' = IF frameQueue = <<>> THEN nextFrame ELSE -1
  /\ earlyFrame' = FALSE
  /\ UNCHANGED nonServerVars
  /\ UNCHANGED <<m_enabled, m_sockets, listening, sockState, ioWritten,
                 frameQueue, rawQueue, nextFrame, nextRaw>>

\* lines 208-255; run by every timeout1Hz
sendProcessedData ==
  /\ IF ~m_enabled THEN UNCHANGED <<written, m_frames>>
     ELSE IF Len(m_frames) <= 0 THEN UNCHANGED <<written, m_frames>>
     ELSE IF Len(m_sockets) < 1 THEN UNCHANGED <<written, m_frames>>
     ELSE /\ written' = IF Len(FrameArray(m_frames)) > 0
                        THEN WriteToAll(m_sockets, BatchMessage(m_frames))
                        ELSE written
          /\ m_frames' = <<>>
  /\ lastOp' = <<"sendProcessedData", 0>>
  /\ tickMark' = IF frameQueue = <<>> THEN nextFrame ELSE -1
  /\ earlyFrame' = FALSE
  /\ UNCHANGED nonServerVars
  /\ UNCHANGED <<m_enabled, m_sockets, listening, sockState, ioWritten,
                 frameQueue, rawQueue, nextFrame, nextRaw>>

\* sendRawData run for the newest queued dataReceived instead of the oldest
sendRawData_NewestFirst ==
  /\ rawQueue # <<>>
  /\ LET data == rawQueue[Len(rawQueue)]
     IN IF ~m_enabled THEN UNCHANGED written
        ELSE IF Len(m_sockets) < 1 THEN UNCHANGED written
        ELSE written' = WriteToAll(m_sockets, RawMessage(data))
  /\ rawQueue' = SubSeq(rawQueue, 1, Len(rawQueue) - 1)
  /\ lastOp' = <<"sendRawData", 0>>
  /\ UNCHANGED nonServerVars
  /\ UNCHANGED <<m_enabled, m_sockets, m_frames, listening, sockState,
                 ioWritten, frameQueue, nextFrame, nextRaw, tickMark, earlyFrame>>

\* lines 261-288; delivery of the oldest queued dataReceived
sendRawData ==
  /\ rawQueue # <<>>
  /\ LET data == Head(rawQueue)
     IN IF ~m_enabled THEN UNCHANGED written
        ELSE IF Len(m_sockets) < 1 THEN UNCHANGED written
        ELSE written' = WriteToAll(m_sockets, RawMessage(data))
  /\ rawQueue' = Tail(rawQueue)
  /\ lastOp' = <<"sendRawData", 0>>
  /\ UNCHANGED nonServerVars
  /\ UNCHANGED <<m_enabled, m_sockets, m_frames, listening, sockState,
                 ioWritten, frameQueue, nextFrame, nextRaw, tickMark, earlyFrame>>

\* registerFrame without the enabled() test
RegisterFrame_NoEnabledCheck ==
  /\ frameQueue # <<>>
  /\ m_frames' = Append(m_frames, Head(frameQueue))
  /\ frameQueue' = Tail(frameQueue)

\* lines 294-298, applied to the oldest queued frameChanged
RegisterFrame ==
  /\ frameQueue # <<>>
  /\ m_frames' = IF m_enabled THEN Append(m_frames, Head(frameQueue))
                 ELSE m_frames
  /\ frameQueue' = Tail(frameQueue)

\* lines 294-298; delivery of the oldest queued frameChanged
registerFrame ==
  /\ RegisterFrame
  /\ lastOp' = <<"none", 0>>
  /\ UNCHANGED nonServerVars
  /\ UNCHANGED <<m_enabled, m_sockets, listening, sockState, written,
                 ioWritten, rawQueue, nextFrame, nextRaw, tickMark, earlyFrame>>

\* lines 304-315: the error is printed, nothing else
onErrorOccurred(socket) ==
  /\ sockState[socket] \in {"open", "unwritable"}
  /\ lastOp' = <<"onErrorOccurred", socket>>
  /\ UNCHANGED nonServerVars
  /\ UNCHANGED <<m_enabled, m_sockets, m_frames, listening, sockState,
                 written, ioWritten, frameQueue, rawQueue, nextFrame,
                 nextRaw, tickMark, earlyFrame>>

(***************************************************************************)
(* The environment.                                                        *)
(***************************************************************************)
\* lines 41-42: JSON::FrameBuilder emits frameChanged; the notification is
\* queued for registerFrame.  At most limit frames are produced in a run.
frameChanged(limit) ==
  /\ nextFrame < limit
  /\ Len(frameQueue) < MaxQueue
  /\ nextFrame' = nextFrame + 1
  /\ frameQueue' = Append(frameQueue, nextFrame + 1)
  /\ lastOp' = <<"none", 0>>
  /\ UNCHANGED nonServerVars
  /\ UNCHANGED <<m_enabled, m_sockets, m_frames, listening, sockState,
                 written, ioWritten, rawQueue, nextRaw, tickMark, earlyFrame>>

\* lines 41-42 as frameChanged, with the production noted in the history
frameChangedObserved(limit) ==
  /\ nextFrame < limit
  /\ Len(frameQueue) < MaxQueue
  /\ nextFrame' = nextFrame + 1
  /\ frameQueue' = Append(frameQueue, nextFrame + 1)
  /\ handoffLog' = Append(handoffLog, <<"produced", nextFrame + 1, m_enabled>>)
  /\ lastOp' = <<"none", 0>>
  /\ UNCHANGED <<parserVars, groupVars, pipelineVars, editorVars, readBefore,
                 plotVars>>
  /\ UNCHANGED <<m_enabled, m_sockets, m_frames, listening, sockState,
                 written, ioWritten, rawQueue, nextRaw, tickMark, earlyFrame>>

\* lines 294-298 as registerFrame, with the delivery noted in the history
registerFrameObserved ==
  /\ RegisterFrame
  /\ handoffLog' = Append(handoffLog, <<"delivered", Head(frameQueue), m_enabled>>)
  /\ lastOp' = <<"none", 0>>
  /\ UNCHANGED <<parserVars, groupVars, pipelineVars, editorVars, readBefore,
                 plotVars>>
  /\ UNCHANGED <<m_enabled, m_sockets, listening, sockState, written,
                 ioWritten, rawQueue, nextFrame, nextRaw, tickMark, earlyFrame>>

\* lines 47-48: IO::Manager emits dataReceived; the notification is queued
\* for sendRawData.  At most limit chunks are produced in a run.
dataReceived(limit) ==
  /\ nextRaw < limit
  /\ nextRaw' = nextRaw + 1
  /\ rawQueue' = Append(rawQueue, nextRaw + 1)
  /\ lastOp' = <<"none", 0>>
  /\ UNCHANGED nonServerVars
  /\ UNCHANGED <<m_enabled, m_sockets, m_frames, listening, sockState,
                 written, ioWritten, frameQueue, nextFrame, tickMark, earlyFrame>>

\* lines 247 and 285 ask the socket whether it is writable; the answer is
\* the socket's open mode, which the server does not control
socketUnwritable(socket) ==
  /\ sockState[socket] = "open"
  /\ sockState' = [sockState EXCEPT ![socket] = "unwritable"]
  /\ lastOp' = <<"none", 0>>
  /\ UNCHANGED nonServerVars
  /\ UNCHANGED <<m_enabled, m_sockets, m_frames, listening, written,
                 ioWritten, frameQueue, rawQueue, nextFrame, nextRaw,
                 tickMark, earlyFrame>>

(***************************************************************************)
(* The frame parser (JSON::FrameParser).  A script is known by what its    *)
(* evaluation does: whether it reports errors, what it does to the global  *)
(* property "parse", and how the function it defines behaves when called.  *)
(***************************************************************************)
\* QJSValue::ErrorType of an Error object (the cases of lines 329-349)
ErrorTypes == {"GenericError", "EvalError", "RangeError", "ReferenceError",
               "SyntaxError", "TypeError", "URIError"}

\* what a call of a script's function may do: return a list of fields,
\* return an empty list, throw an Error object of some type, or throw a
\* value that is not an Error object (throw "text").  The scripts of the
\* model throw two of the error types.
SmokeBehaviours == {"fields", "throwsValue", "TypeError", "RangeError"}
LiveBehaviours == {"fields", "empty", "throwsValue", "TypeError"}

\* errors: "none", "syntax" (the script does not compile, so it does not
\* run) or "exception" (its top-level code throws).  defines: what the run
\* leaves in the global property "parse".
Scripts ==
  {s \in [errors : {"none", "syntax", "exception"},
          defines : {"nothing", "function", "value"},
          smoke : SmokeBehaviours,
          live : LiveBehaviours] :
     /\ s.errors = "syntax" => s.defines = "nothing"
     /\ s.defines # "function" => s.smoke = "fields" /\ s.live = "fields"}

\* the frame of the smoke call, "" (line 311)
EmptyFrame == 0
\* the frames given to parse() by the frame builder
LiveFrames == 1..NumLiveFrames
\* the separator of the smoke call (line 311) and another one
Separators == {",", ";"}

\* values of the script engine
Undefined == [kind |-> "undefined"]
NonCallable == [kind |-> "value"]
Function(script, n) == [kind |-> "function", script |-> script, gen |-> n]

\* QJSValue::isCallable()
IsCallable(value) == value.kind = "function"

\* QJSEngine::evaluate(script) of line 298: the global property "parse" after
\* the n-th evaluation
Evaluate(script, engine, n) ==
  CASE script.defines = "function" -> Function(script, n)
    [] script.defines = "value" -> NonCallable
    [] OTHER -> engine

\* QJSValue::call(args): the value returned, or the value thrown.  Calling a
\* value that is not a function returns undefined.
Call(fun, frame, separator) ==
  IF ~IsCallable(fun) THEN [kind |-> "undefined"]
  ELSE LET b == IF frame = EmptyFrame THEN fun.script.smoke ELSE fun.script.live
       IN CASE b = "fields" -> [kind |-> "list", list |-> <<frame, separator>>]
            [] b = "empty" -> [kind |-> "list", list |-> <<>>]
            [] b = "throwsValue" -> [kind |-> "string", list |-> <<"thrown">>]
            [] OTHER -> [kind |-> "error", errorType |-> b]

\* QJSValue::isError(): the value is an Error object
IsError(ret) == ret.kind = "error"

\* QJSValue::toVariant().toStringList(): a list converts to its elements, a
\* string to the list holding it, anything else to the empty list
ToStringList(ret) ==
  IF ret.kind \in {"list", "string"} THEN ret.list ELSE <<>>

\* lines 327-353
ErrorStr(errorType) ==
  CASE errorType = "GenericError" -> "Generic error"
    [] errorType = "EvalError" -> "Evaluation error"
    [] errorType = "RangeError" -> "Range error"
    [] errorType = "ReferenceError" -> "Reference error"
    [] errorType = "SyntaxError" -> "Syntax error"
    [] errorType = "TypeError" -> "Type error"
    [] errorType = "URIError" -> "URI error"
    [] OTHER -> "Unknown error"

\* the message boxes of loadScript (lines 304-306, 317-319, 355-356) as
\* title and text; NoMessage when none is shown
NoMessage == <<"", "">>
MissingEntryPointBox ==
  <<"Frame parser error!", "No parse() function has been declared!">>
SyntaxErrorBox == <<"Frame parser syntax error!", "Error on line %1.">>
RuntimeErrorBox(errorType) ==
  <<"Frame parser error detected!", ErrorStr(errorType)>>

\* LoadScript with the tests of lines 315 and 324 made before the look-up of
\* line 301
LoadScript_EvaluationFirst(script, engine, active, n) ==
  LET fun == Evaluate(script, engine, n)
      ret == Call(fun, EmptyFrame, ",")
  IN IF script.errors # "none"
     THEN [engine |-> fun, active |-> active, result |-> FALSE,
           smoke |-> <<>>,
           message |-> SyntaxErrorBox]
     ELSE IF ~IsCallable(fun)
     THEN [engine |-> fun, active |-> active, result |-> FALSE,
           smoke |-> <<>>,
           message |-> MissingEntryPointBox]
     ELSE IF IsError(ret)
     THEN [engine |-> fun, active |-> active, result |-> FALSE,
           smoke |-> <<<<EmptyFrame, ",">>>>,
           message |-> RuntimeErrorBox(ret.errorType)]
     ELSE [engine |-> fun, active |-> fun, result |-> TRUE,
           smoke |-> <<<<EmptyFrame, ",">>>>, message |-> NoMessage]

\* LoadScript with the assignment of line 361 made right after line 301
LoadScript_AssignsEarly(script, engine, active, n) ==
  LET fun == Evaluate(script, engine, n)
      ret == Call(fun, EmptyFrame, ",")
  IN IF ~IsCallable(fun)
     THEN [engine |-> fun, active |-> fun, result |-> FALSE,
           smoke |-> <<>>,
           message |-> MissingEntryPointBox]
     ELSE IF script.errors # "none"
     THEN [engine |-> fun, active |-> fun, result |-> FALSE,
           smoke |-> <<<<EmptyFrame, ",">>>>,
           message |-> SyntaxErrorBox]
     ELSE IF IsError(ret)
     THEN [engine |-> fun, active |-> fun, result |-> FALSE,
           smoke |-> <<<<EmptyFrame, ",">>>>,
           message |-> RuntimeErrorBox(ret.errorType)]
     ELSE [engine |-> fun, active |-> fun, result |-> TRUE,
           smoke |-> <<<<EmptyFrame, ",">>>>, message |-> NoMessage]

\* lines 290-363: what the n-th loadScript, given script, makes of the
\* engine and of m_parseFunction (active), what it returns, the calls it
\* makes to parse and the message box it shows
LoadScript(script, engine, active, n) ==
  LET fun == Evaluate(script, engine, n)
      ret == Call(fun, EmptyFrame, ",")
  IN IF ~IsCallable(fun)
     THEN [engine |-> fun, active |-> active, result |-> FALSE,
           smoke |-> <<>>,
           message |-> MissingEntryPointBox]
     ELSE IF script.errors # "none"
     THEN [engine |-> fun, active |-> active, result |-> FALSE,
           smoke |-> <<<<EmptyFrame, ",">>>>,
           message |-> SyntaxErrorBox]
     ELSE IF IsError(ret)
     THEN [engine |-> fun, active |-> active, result |-> FALSE,
           smoke |-> <<<<EmptyFrame, ",">>>>,
           message |-> RuntimeErrorBox(ret.errorType)]
     ELSE [engine |-> fun, active |-> fun, result |-> TRUE,
           smoke |-> <<<<EmptyFrame, ",">>>>, message |-> NoMessage]

\* defaultCode(), lines 112-126: the template script of the resource file
\* frame-parser.js, which declares a working parse()
DefaultCode ==
  [errors |-> "none", defines |-> "function", smoke |-> "fields",
   live |-> "fields"]

\* the constructor, lines 49-110: reload() (line 81) loads the template code
\* into the engine just made
InitFrameParser ==
  LET out == LoadScript(DefaultCode, Undefined, Undefined, 1)
  IN /\ m_engine = out.engine
     /\ m_parseFunction = out.active
     /\ m_separator = ","
     /\ loadCount = 1
     /\ parserOp = "FrameParser"
     /\ loadArg = DefaultCode
     /\ loadResult = out.result
     /\ message = out.message
     /\ smokeCalls = out.smoke
     /\ called = <<Undefined, EmptyFrame, ",">>
     /\ parseOut = <<>>

\* lines 290-363
loadScript(script) ==
  /\ loadCount < MaxLoads
  /\ LET out == LoadScript(script, m_engine, m_parseFunction, loadCount + 1)
     IN /\ m_engine' = out.engine
        /\ m_parseFunction' = out.active
        /\ loadResult' = out.result
        /\ message' = out.message
        /\ smokeCalls' = out.smoke
  /\ loadCount' = loadCount + 1
  /\ parserOp' = "loadScript"
  /\ loadArg' = script
  /\ UNCHANGED <<m_separator, called, parseOut>>
  /\ UNCHANGED <<serverVars, groupVars, pipelineVars, extraVars>>

\* lines 138-155
parse(frame, separator) ==
  /\ called' = <<m_parseFunction, frame, separator>>
  /\ parseOut' = ToStringList(Call(m_parseFunction, frame, separator))
  /\ message' = NoMessage
  /\ parserOp' = "parse"
  /\ UNCHANGED <<m_engine, m_parseFunction, m_separator, loadCount, loadArg,
                 loadResult, smokeCalls>>
  /\ UNCHANGED <<serverVars, groupVars, pipelineVars, extraVars>>

\* ProjectModel::setSeparator (Model.h line 161): the operator configures
\* the separator of the project
setSeparator(separator) ==
  /\ separator # m_separator
  /\ m_separator' = separator
  /\ parserOp' = "setSeparator"
  /\ message' = NoMessage
  /\ UNCHANGED <<m_engine, m_parseFunction, loadCount, loadArg, loadResult,
                 smokeCalls, called, parseOut>>
  /\ UNCHANGED <<serverVars, groupVars, pipelineVars, extraVars>>

(***************************************************************************)
(* The code editor of the frame parser.  The text of the editor is known   *)
(* as the script it holds.  The parser and its editor are handled as one   *)
(* record: text, modified and code are the editor text, the document's     *)
(* modified flag and the project's parser code; engine, active, count,     *)
(* arg, result, smoke and message are m_engine, m_parseFunction and what   *)
(* the last loadScript was given, returned, called and showed.             *)
(***************************************************************************)
\* the texts the operator types, imports or finds in a project: the
\* template, a script whose parse returns no field for a frame, a script
\* that declares no parse, and a script whose parse throws when called
EditorScripts ==
  {DefaultCode,
   [errors |-> "none", defines |-> "function", smoke |-> "fields",
    live |-> "empty"],
   [errors |-> "none", defines |-> "nothing", smoke |-> "fields",
    live |-> "fields"],
   [errors |-> "none", defines |-> "function", smoke |-> "TypeError",
    live |-> "fields"]}

\* loadScript(script), lines 290-363, on the record
Loaded(e, script) ==
  LET out == LoadScript(script, e.engine, e.active, e.count + 1)
  IN [e EXCEPT !.engine = out.engine, !.active = out.active,
               !.count = e.count + 1, !.arg = script,
               !.result = out.result, !.smoke = out.smoke,
               !.message = out.message]

\* QPlainTextEdit::setPlainText(text): the document is replaced and is not
\* modified afterwards
SetPlainText(e, text) == [e EXCEPT !.text = text, !.modified = FALSE]

\* readCode(), lines 365-370
ReadCode(e) ==
  Loaded([SetPlainText(e, e.code) EXCEPT !.modified = FALSE], e.code)

\* ProjectModel::setFrameParserCode(code), Model.h line 162: the code is
\* stored; when the model announces frameParserCodeChanged (Model.h line
\* 85), readCode runs inside the call (lines 93-95)
SetFrameParserCode(e, code, notify) ==
  IF notify THEN ReadCode([e EXCEPT !.code = code])
  ELSE [e EXCEPT !.code = code]

\* Save that clears the modified flag whatever loadScript returned
Save_ClearsAlways(e, silent, notify) ==
  LET l == Loaded(e, e.text)
  IN IF l.result
     THEN LET stored == SetFrameParserCode([l EXCEPT !.modified = FALSE],
                                           l.text, notify)
          IN [stored EXCEPT !.saved = TRUE,
                            !.message = IF silent THEN stored.message
                                        ELSE
                                          <<"Frame parser code updated successfully!",
                                            "No errors have been detected in the code.">>]
     ELSE [l EXCEPT !.saved = FALSE, !.modified = FALSE]

\* save(silent), lines 268-288
Save(e, silent, notify) ==
  LET l == Loaded(e, e.text)
  IN IF l.result
     THEN LET stored == SetFrameParserCode([l EXCEPT !.modified = FALSE],
                                           l.text, notify)
          IN [stored EXCEPT !.saved = TRUE,
                            !.message = IF silent THEN stored.message
                                        ELSE
                                          <<"Frame parser code updated successfully!",
                                            "No errors have been detected in the code.">>]
     ELSE [l EXCEPT !.saved = FALSE]

\* reload(), lines 198-214; yes is the operator's answer to the question of
\* lines 203-206
Reload(e, yes, notify) ==
  IF e.modified /\ ~yes THEN e
  ELSE Save(SetPlainText(e, DefaultCode), TRUE, notify)

\* import(), lines 216-245; file is the text of the file the operator
\* selected
Import(e, yes, file, notify) ==
  IF e.modified /\ ~yes THEN e
  ELSE Save(SetPlainText(e, file), TRUE, notify)

\* the parser and its editor as a record
Editor ==
  [text |-> m_textEdit, modified |-> modified, code |-> m_frameParserCode,
   saved |-> saveResult, engine |-> m_engine, active |-> m_parseFunction,
   count |-> loadCount, arg |-> loadArg, result |-> loadResult,
   smoke |-> smokeCalls, message |-> message]

\* the record e becomes the state, after the operation op
Becomes(e, op) ==
  /\ e.count <= MaxLoads
  /\ m_textEdit' = e.text
  /\ modified' = e.modified
  /\ m_frameParserCode' = e.code
  /\ saveResult' = e.saved
  /\ m_engine' = e.engine
  /\ m_parseFunction' = e.active
  /\ loadCount' = e.count
  /\ loadArg' = e.arg
  /\ loadResult' = e.result
  /\ smokeCalls' = e.smoke
  /\ message' = e.message
  /\ parserOp' = op
  /\ UNCHANGED <<m_separator, called, parseOut>>
  /\ UNCHANGED <<serverVars, groupVars, pipelineVars, handoffLog, readBefore,
                 plotVars>>

\* the constructor, lines 49-110: reload() of line 81 puts the template in
\* the editor and saves it; readCode is connected afterwards (lines 93-95)
InitEditor ==
  /\ m_textEdit = DefaultCode
  /\ modified = FALSE
  /\ m_frameParserCode = DefaultCode
  /\ saveResult = TRUE

\* the operator changes the text of the editor (textChanged, lines 98-99)
textChanged(text) ==
  /\ text # m_textEdit
  /\ Becomes([Editor EXCEPT !.text = text, !.modified = TRUE], "textChanged")

\* lines 268-288; apply() (lines 193-196) is save(true)
save(silent, notify) == Becomes(Save(Editor, silent, notify), "save")

\* lines 198-214
reload(yes, notify) == Becomes(Reload(Editor, yes, notify), "reload")

\* lines 216-245, when the operator selects a file that can be read
import(yes, file, notify) ==
  Becomes(Import(Editor, yes, file, notify), "import")

\* lines 365-370, when the project model announces a new parser code (a
\* project is opened)
readCode(code) ==
  /\ code # m_frameParserCode
  /\ Becomes(ReadCode([Editor EXCEPT !.code = code]), "readCode")

(***************************************************************************)
(* Reading a group (JSON::Group::read).  A text is a sequence of           *)
(* characters; an entry of the datasets array is known by what becomes of  *)
(* it: "empty" (not an object, or an object without keys), "invalid" (an   *)
(* object Dataset::read rejects) or "valid" (one it accepts).              *)
(***************************************************************************)
Chars == {" ", "a"}
Texts == UNION {[1..n -> Chars] : n \in 0..MaxTextLen}
WidgetTexts == {<<>>, <<"w", " ">>}
EntryKinds == {"empty", "invalid", "valid"}
Arrays == UNION {[1..n -> EntryKinds] : n \in 0..MaxDatasets}
GroupIds == {0, 1}

\* the JSON objects given to read(): which keys the object has and their
\* values (a key that is absent has no value; it is written as empty here)
Objects ==
  {o \in [hasTitle : BOOLEAN, title : Texts,
          hasWidget : BOOLEAN, widget : WidgetTexts,
          hasDatasets : BOOLEAN, datasets : Arrays] :
     /\ ~o.hasTitle => o.title = <<>>
     /\ ~o.hasWidget => o.widget = <<>>
     /\ ~o.hasDatasets => o.datasets = <<>>}

\* QJsonObject::isEmpty(): the object has no key
IsEmptyObject(object) ==
  ~object.hasTitle /\ ~object.hasWidget /\ ~object.hasDatasets

\* lines 40-47
SAFE_READ(present, value, defaultValue) ==
  IF present THEN value ELSE defaultValue

RECURSIVE Simplified(_)
\* QString::simplified(): white space removed from both ends, every inner
\* run of white space replaced by one space
Simplified(text) ==
  IF text = <<>> THEN <<>>
  ELSE IF Head(text) = " " THEN Simplified(Tail(text))
  ELSE IF \A i \in 1..Len(Tail(text)) : Tail(text)[i] = " "
       THEN <<Head(text)>>
  ELSE IF Head(Tail(text)) = " "
       THEN <<Head(text), " ">> \o Simplified(Tail(text))
  ELSE <<Head(text)>> \o Simplified(Tail(text))

\* Dataset::read(object) of line 121, for an entry that is a non-empty object
DatasetRead(entry) == entry = "valid"

RECURSIVE ReadLoop(_, _, _, _)
\* lines 115-124: i is the code's 0-based index
ReadLoop(array, i, groupId, datasets) ==
  IF i >= Len(array) THEN datasets
  ELSE IF array[i + 1] # "empty" /\ DatasetRead(array[i + 1])
       THEN ReadLoop(array, i + 1, groupId,
                     Append(datasets, [groupId |-> groupId, index |-> i]))
       ELSE ReadLoop(array, i + 1, groupId, datasets)

\* GroupRead that keeps the datasets the group holds
GroupRead_Appends(object, groupId, old) ==
  LET array == object.datasets
      title == Simplified(SAFE_READ(object.hasTitle, object.title, <<>>))
      widget == Simplified(SAFE_READ(object.hasWidget, object.widget, <<>>))
  IN IF ~IsEmptyObject(object) /\ title # <<>> /\ array # <<>>
     THEN LET datasets == ReadLoop(array, 0, groupId, old.datasets)
          IN [title |-> title, widget |-> widget, datasets |-> datasets,
              result |-> Len(datasets) > 0]
     ELSE [title |-> old.title, widget |-> old.widget,
           datasets |-> old.datasets, result |-> FALSE]

\* GroupRead that returns true once the title and the array are accepted
GroupRead_NoCount(object, groupId, old) ==
  LET array == object.datasets
      title == Simplified(SAFE_READ(object.hasTitle, object.title, <<>>))
      widget == Simplified(SAFE_READ(object.hasWidget, object.widget, <<>>))
  IN IF ~IsEmptyObject(object) /\ title # <<>> /\ array # <<>>
     THEN [title |-> title, widget |-> widget,
           datasets |-> ReadLoop(array, 0, groupId, <<>>),
           result |-> TRUE]
     ELSE [title |-> old.title, widget |-> old.widget,
           datasets |-> old.datasets, result |-> FALSE]

\* lines 98-131: the group's fields after read(object) and what it returns;
\* old holds the fields before
GroupRead(object, groupId, old) ==
  LET array == object.datasets
      title == Simplified(SAFE_READ(object.hasTitle, object.title, <<>>))
      widget == Simplified(SAFE_READ(object.hasWidget, object.widget, <<>>))
  IN IF ~IsEmptyObject(object) /\ title # <<>> /\ array # <<>>
     THEN LET datasets == ReadLoop(array, 0, groupId, <<>>)
          IN [title |-> title, widget |-> widget, datasets |-> datasets,
              result |-> Len(datasets) > 0]
     ELSE [title |-> old.title, widget |-> old.widget,
           datasets |-> old.datasets, result |-> FALSE]

\* an object without keys
NoObject ==
  [hasTitle |-> FALSE, title |-> <<>>, hasWidget |-> FALSE, widget |-> <<>>,
   hasDatasets |-> FALSE, datasets |-> <<>>]

\* the constructor, lines 51-56, for a group that is given groupId and is
\* about to read object
Group(groupId, object) ==
  /\ m_groupId = groupId
  /\ m_title = <<>>
  /\ m_widget = <<>>
  /\ m_datasets = <<>>
  /\ readArg = object
  /\ readDone = FALSE
  /\ readResult = FALSE

\* a group that reads nothing
InitGroup == Group(0, NoObject)

\* a group with any id, about to read any object
InitGroupRead ==
  \E groupId \in GroupIds : \E object \in Objects : Group(groupId, object)

\* a group with any id that has read an object before (lines 98-131 applied
\* to the group the constructor makes; the object had a title, no widget
\* and any array) and is about to read any object
InitGroupReload ==
  \E groupId \in GroupIds : \E object \in Objects :
  \E prior \in {o \in Objects :
                  o.title = <<"a">> /\ ~o.hasWidget /\ o.hasDatasets} :
    LET out == GroupRead(prior, groupId,
                         [title |-> <<>>, widget |-> <<>>, datasets |-> <<>>])
    IN /\ m_groupId = groupId
       /\ m_title = out.title
       /\ m_widget = out.widget
       /\ m_datasets = out.datasets
       /\ readArg = object
       /\ readDone = FALSE
       /\ readResult = FALSE
       /\ readBefore = prior

\* lines 98-131, applied to readArg
read ==
  /\ ~readDone
  /\ LET out == GroupRead(readArg, m_groupId,
                          [title |-> m_title, widget |-> m_widget,
                           datasets |-> m_datasets])
     IN /\ m_title' = out.title
        /\ m_widget' = out.widget
        /\ m_datasets' = out.datasets
        /\ readResult' = out.result
  /\ readDone' = TRUE
  /\ UNCHANGED <<m_groupId, readArg>>
  /\ UNCHANGED <<serverVars, parserVars, pipelineVars, extraVars>>

(***************************************************************************)
(* The ingestion pipeline: StreamFramer, FrameDecoder and FrameBuilder.    *)
(* A byte is a number in 0..255, a text is a sequence of code points.     *)
(* One read event of the transport runs the framer and, for every frame    *)
(* it emits, one decode, parse and build cycle, all inside the event.      *)
(***************************************************************************)
\* SerialStudio::FrameDetection
FrameDetections == {"EndDelimiterOnly", "StartAndEndDelimiter", "NoDelimiters"}

\* SerialStudio::DecoderMethod
DecoderMethods == {"PlainText", "Hexadecimal", "Base64"}

\* the configured start sequence, "/*"
StartSequence == <<47, 42>>
\* the configured end sequence, "*/"
EndSequence == <<42, 47>>

\* the bytes of buf after the first n
Drop(buf, n) == SubSeq(buf, n + 1, Len(buf))

\* the position of the first occurrence of pattern in buf, 0 when there is
\* none
IndexOf(buf, pattern) ==
  LET hits == {i \in 1..(Len(buf) - Len(pattern) + 1) :
                 SubSeq(buf, i, i + Len(pattern) - 1) = pattern}
  IN IF hits = {} THEN 0 ELSE CHOOSE i \in hits : \A j \in hits : i <= j

\* a framer that keeps no partial match of a delimiter
PartialMatch_None(buf, pattern) == 0

\* the length of the longest proper prefix of pattern that buf ends with:
\* the part of a delimiter cut in two by a read
PartialMatch(buf, pattern) ==
  LET fits == {k \in 0..(Len(pattern) - 1) :
                 /\ k <= Len(buf)
                 /\ Drop(buf, Len(buf) - k) = SubSeq(pattern, 1, k)}
  IN CHOOSE k \in fits : \A l \in fits : l <= k

\* a frame that keeps the end sequence that closed it
FrameSpan_WithDelimiter(buf, j) == SubSeq(buf, 1, j + Len(EndSequence) - 1)

\* the frame closed by the end sequence found at position j of buf
FrameSpan(buf, j) == SubSeq(buf, 1, j - 1)

RECURSIVE Extract(_, _, _, _)
\* the framer's scan of its buffer: in Idle under StartAndEndDelimiter the
\* bytes up to the start sequence are discarded; otherwise the bytes before
\* the end sequence are emitted and the end sequence is discarded
Extract(mode, state, buf, frames) ==
  IF mode = "StartAndEndDelimiter" /\ state = "Idle"
  THEN LET i == IndexOf(buf, StartSequence)
       IN IF i = 0
          THEN [state |-> "Idle",
                buffer |-> Drop(buf, Len(buf) - PartialMatch(buf, StartSequence)),
                frames |-> frames]
          ELSE Extract(mode, "Collecting",
                       Drop(buf, i + Len(StartSequence) - 1), frames)
  ELSE LET j == IndexOf(buf, EndSequence)
       IN IF j = 0
          THEN [state |-> IF mode = "StartAndEndDelimiter" \/ buf # <<>>
                          THEN "Collecting" ELSE "Idle",
                buffer |-> buf,
                frames |-> frames]
          ELSE Extract(mode, "Idle", Drop(buf, j + Len(EndSequence) - 1),
                       Append(frames, FrameSpan(buf, j)))

\* StreamFramer given the bytes of one read: its state, its buffer and the
\* frames it emits
StreamFramer(mode, state, buf, data) ==
  IF mode = "NoDelimiters"
  THEN [state |-> "Idle", buffer |-> <<>>, frames |-> <<data>>]
  ELSE Extract(mode, state, buf \o data, <<>>)

\* "0".."9", "A".."F", "a".."f"
IsHexDigit(b) == b \in (48..57) \cup (65..70) \cup (97..102)

HexValue(b) ==
  IF b \in 48..57 THEN b - 48 ELSE IF b \in 65..70 THEN b - 55 ELSE b - 87

RECURSIVE FromHex(_)
\* the bytes written by pairs of hex digits
FromHex(digits) ==
  IF digits = <<>> THEN <<>>
  ELSE <<16 * HexValue(digits[1]) + HexValue(digits[2])>>
         \o FromHex(Drop(digits, 2))

\* a decoder that ignores a last digit without a partner
Hexadecimal_Lenient(frame) ==
  IF \E i \in 1..Len(frame) : ~IsHexDigit(frame[i]) THEN <<>>
  ELSE FromHex(SubSeq(frame, 1, Len(frame) - (Len(frame) % 2)))

\* Hexadecimal: an even count of hex digits, otherwise the empty result
Hexadecimal(frame) ==
  IF Len(frame) % 2 = 1 \/ \E i \in 1..Len(frame) : ~IsHexDigit(frame[i])
  THEN <<>>
  ELSE FromHex(frame)

\* "A".."Z", "a".."z", "0".."9", "+", "/"
IsBase64Char(b) == b \in (65..90) \cup (97..122) \cup (48..57) \cup {43, 47}

Base64Value(b) ==
  IF b \in 65..90 THEN b - 65
  ELSE IF b \in 97..122 THEN b - 71
  ELSE IF b \in 48..57 THEN b + 4
  ELSE IF b = 43 THEN 62 ELSE 63

\* groups of four characters of the standard alphabet, the last one padded
\* with one or two "="
IsBase64(frame) ==
  LET n == Len(frame)
      pad == IF n >= 2 /\ frame[n] = 61 /\ frame[n - 1] = 61 THEN 2
             ELSE IF n >= 1 /\ frame[n] = 61 THEN 1 ELSE 0
  IN /\ n % 4 = 0
     /\ \A i \in 1..(n - pad) : IsBase64Char(frame[i])

RECURSIVE FromBase64(_)
\* the bytes written by groups of four characters
FromBase64(chars) ==
  IF chars = <<>> THEN <<>>
  ELSE LET a == Base64Value(chars[1])
           b == Base64Value(chars[2])
           first == <<4 * a + (b \div 16)>>
       IN IF chars[3] = 61 THEN first
          ELSE LET c == Base64Value(chars[3])
                   second == <<16 * (b % 16) + (c \div 4)>>
               IN IF chars[4] = 61 THEN first \o second
                  ELSE first \o second
                         \o <<64 * (c % 4) + Base64Value(chars[4])>>
                         \o FromBase64(Drop(chars, 4))

\* Base64: standard alphabet with padding, otherwise the empty result
Base64(frame) == IF IsBase64(frame) THEN FromBase64(frame) ELSE <<>>

\* bytes as UTF-8 text: the bytes of the model that are ASCII are their own
\* code points, any other byte is replaced by U+FFFD
Utf8(bytes) ==
  [i \in 1..Len(bytes) |-> IF bytes[i] < 128 THEN bytes[i] ELSE 65533]

\* FrameDecoder: decode(bytes, method) -> text
decode(bytes, method) ==
  CASE method = "PlainText" -> Utf8(bytes)
    [] method = "Hexadecimal" -> Utf8(Hexadecimal(bytes))
    [] method = "Base64" -> Utf8(Base64(bytes))

\* the code point of the separator of the project
SeparatorCode(separator) == IF separator = "," THEN 44 ELSE 59

RECURSIVE Split(_, _)
\* String.prototype.split: the parts of text between the occurrences of
\* the code point sep; a text without sep is one part
Split(text, sep) ==
  LET i == IndexOf(text, <<sep>>)
  IN IF i = 0 THEN <<text>>
     ELSE <<SubSeq(text, 1, i - 1)>> \o Split(Drop(text, i), sep)

\* the FieldList FrameParser::parse returns for a decoded text: a function
\* that returns fields splits the text as the template script does, any
\* other one returns what it returns for every frame
ParseFields(fun, text, separator) ==
  IF IsCallable(fun) /\ fun.script.live = "fields"
  THEN Split(text, SeparatorCode(separator))
  ELSE ToStringList(Call(fun, 1, separator))

\* the schema: Dataset.index() of every Dataset, over every Group
DatasetIndexes == <<1, 2, 0>>

\* the values of the Datasets before the first frame
NoValues == [d \in 1..Len(DatasetIndexes) |-> <<>>]

\* a mapping that empties the Datasets the FieldList does not reach
MapFields_Resets(fields, previous) ==
  [d \in 1..Len(DatasetIndexes) |->
     IF DatasetIndexes[d] \in 1..Len(fields)
     THEN fields[DatasetIndexes[d]]
     ELSE <<>>]

\* FieldList[dataset.index() - 1] if that index is in range, else the
\* previous value (sequences of the model start at 1)
MapFields(fields, previous) ==
  [d \in 1..Len(DatasetIndexes) |->
     IF DatasetIndexes[d] \in 1..Len(fields)
     THEN fields[DatasetIndexes[d]]
     ELSE previous[d]]

\* a builder that builds a frame from any FieldList
HasFields_Always(fields) == TRUE

\* a cycle that yields zero fields produces no StructuredFrame
HasFields(fields) == fields # <<>>

\* a builder that gives every frame the same id
SequenceId_Same(count) == 1

\* the sequence id of the frame built after count frames
SequenceId(count) == count + 1

\* a builder that does not hand the frame to the dashboard
Emit_NoDashboard(events, id) == Append(events, <<"built", id>>)

\* the frame is built and handed to the dashboard consumer in the calling
\* context
Emit(events, id) == events \o <<<<"built", id>>, <<"dashboard", id>>>>

\* one decode, parse and build cycle for a frame.  b is the builder's
\* state: the Dataset values, the frames built, the log, the number of
\* frames built, the ids posted to the server's notification queue, and the
\* arguments and the result of the last parse() call
Cycle(b, frame) ==
  LET text == decode(frame, decoderMethod)
      fields == ParseFields(m_parseFunction, text, m_separator)
      id == SequenceId(b.count)
      values == MapFields(fields, b.values)
      parsed == [b EXCEPT !.called = <<m_parseFunction, text, m_separator>>,
                          !.parseOut = fields,
                          !.parsed = TRUE]
  IN IF text = <<>> THEN b
     ELSE IF ~HasFields(fields) THEN parsed
     ELSE [parsed EXCEPT
             !.values = values,
             !.built = Append(b.built, [id |-> id, values |-> values,
                                        fields |-> fields]),
             !.log = Emit(b.log, id),
             !.count = b.count + 1,
             !.posted = Append(b.posted, id)]

RECURSIVE Cycles(_, _)
\* the cycles of the frames of one read, in order
Cycles(b, frames) ==
  IF frames = <<>> THEN b
  ELSE Cycles(Cycle(b, Head(frames)), Tail(frames))

\* the pipeline before the first read, configured with a detection mode and
\* a decoder method
Pipeline(mode, method) ==
  /\ detection = mode
  /\ decoderMethod = method
  /\ framerState = "Idle"
  /\ buffer = <<>>
  /\ closed = FALSE
  /\ datasetValues = NoValues
  /\ stream = <<>>
  /\ lastRead = <<>>
  /\ emitted = <<>>
  /\ discarded = <<>>
  /\ built = <<>>
  /\ log = <<>>

InitPipeline == Pipeline("EndDelimiterOnly", "PlainText")

\* the bytes of the framer's streams: "/", "*" and "A"
FramerBytes == {47, 42, 65}

\* a read of one to MaxChunk of them
FramerChunks ==
  UNION {[1..n -> FramerBytes] : n \in 1..MaxChunk}

\* reads that are whole frames: "1,2", "31", "313", "MSwy" and "MQ==", and
\* a read that holds two frames closed by the end sequence, "1*/2*/".
\* "31" is the hexadecimal and "MQ==" the Base64 writing of "1", "MSwy" the
\* Base64 writing of "1,2"
Payloads ==
  {<<49, 44, 50>>, <<51, 49>>, <<51, 49, 51>>, <<77, 83, 119, 121>>,
   <<77, 81, 61, 61>>, <<49, 42, 47, 50, 42, 47>>}

\* the configurations of the frame builder's runs: reads that are frames
\* under every decoder, and plain text closed by the end sequence
BuilderModes ==
  ({"NoDelimiters"} \X DecoderMethods)
    \cup {<<"EndDelimiterOnly", "PlainText">>}

\* a script whose parse() returns no fields
EmptyListCode ==
  [errors |-> "none", defines |-> "function", smoke |-> "fields",
   live |-> "empty"]

\* the scripts the operator loads while frames arrive
BuilderScripts == {DefaultCode, EmptyListCode}

\* one read event of the transport with the bytes data: the framer runs,
\* every frame it emits goes through one cycle, and every StructuredFrame
\* built is posted to the server (frameChanged).  The raw copy of the bytes
\* is the transport's own notification (dataReceived).  A run delivers at
\* most maxBytes bytes and stops reading after maxFrames frames.
readyRead(data, maxFrames, maxBytes) ==
  /\ ~closed
  /\ Len(emitted) < maxFrames
  /\ Len(stream) + Len(data) <= maxBytes
  /\ LET f == StreamFramer(detection, framerState, buffer, data)
         b == Cycles([values |-> datasetValues, built |-> built, log |-> log,
                      count |-> nextFrame, posted |-> <<>>,
                      called |-> called, parseOut |-> parseOut,
                      parsed |-> FALSE],
                     f.frames)
     IN /\ framerState' = f.state
        /\ buffer' = f.buffer
        /\ emitted' = emitted \o f.frames
        /\ datasetValues' = b.values
        /\ built' = b.built
        /\ log' = b.log
        /\ nextFrame' = b.count
        /\ frameQueue' = frameQueue \o b.posted
        /\ called' = b.called
        /\ parseOut' = b.parseOut
        /\ IF b.parsed
           THEN parserOp' = "parse" /\ message' = NoMessage
           ELSE UNCHANGED <<parserOp, message>>
  /\ stream' = stream \o data
  /\ lastRead' = data
  /\ lastOp' = <<"none", 0>>
  /\ UNCHANGED <<detection, decoderMethod, closed, discarded>>
  /\ UNCHANGED <<m_engine, m_parseFunction, m_separator, loadCount, loadArg,
                 loadResult, smokeCalls>>
  /\ UNCHANGED <<m_enabled, m_sockets, m_frames, listening, sockState,
                 written, ioWritten, rawQueue, nextRaw, tickMark, earlyFrame>>
  /\ UNCHANGED <<groupVars, extraVars>>

\* a transport that hands its unfinished frame over when it closes
transportClosed_EmitsPartial ==
  /\ ~closed
  /\ closed' = TRUE
  /\ discarded' = <<>>
  /\ emitted' = Append(emitted, buffer)
  /\ buffer' = <<>>
  /\ framerState' = "Idle"
  /\ UNCHANGED <<detection, decoderMethod, datasetValues, stream, lastRead,
                 built, log>>
  /\ UNCHANGED <<serverVars, parserVars, groupVars, extraVars>>

\* the transport closes: the bytes accumulated without an end sequence are
\* discarded
transportClosed ==
  /\ ~closed
  /\ closed' = TRUE
  /\ discarded' = buffer
  /\ buffer' = <<>>
  /\ framerState' = "Idle"
  /\ UNCHANGED <<detection, decoderMethod, datasetValues, stream, lastRead,
                 emitted, built, log>>
  /\ UNCHANGED <<serverVars, parserVars, groupVars, extraVars>>

(***************************************************************************)
(* Init: the state after construction of the objects.                      *)
(***************************************************************************)
(***************************************************************************)
(* The multiplot widget (Widgets::MultiPlot).  Values of type double are   *)
(* whole numbers here, small enough for every product with 0.1 to be       *)
(* exact to the tenth: a tenth of x is the whole number x in tenths.  A    *)
(* colour of the palette is known by its place, 1 for position 0.          *)
(***************************************************************************)
\* std::numeric_limits<double>::max() and ::lowest() (lines 304-305)
DoubleMax == 1000
DoubleLowest == -1000

\* the y values the dashboard delivers
YValues == {0, 2}
\* the (min, max) pairs a dataset of the project declares
DatasetRanges == {<<0, 0>>, <<0, 2>>}

\* qFuzzyCompare(p1, p2): |p1 - p2| * 10^12 <= min(|p1|, |p2|).  For whole
\* numbers below 10^12 the left side is 0 or at least 10^12 and the right
\* side is below 10^12, so it holds exactly when the two are equal
QFuzzyCompare(p1, p2) == p1 - p2 = 0

\* qFuzzyIsNull(d): |d| <= 10^-12
QFuzzyIsNull(d) == d = 0

\* qMin and qMax
QMin(a, b) == IF a < b THEN a ELSE b
QMax(a, b) == IF a < b THEN b ELSE a

RECURSIVE DatasetLoop(_, _, _, _, _)
\* lines 306-317, from the i-th dataset on
DatasetLoop(group, i, ok, minY, maxY) ==
  IF i > Len(group) THEN [ok |-> ok, minY |-> minY, maxY |-> maxY]
  ELSE LET ok2 == ok /\ ~QFuzzyCompare(group[i].min, group[i].max)
       IN IF ok2
          THEN DatasetLoop(group, i + 1, ok2, QMin(minY, group[i].min),
                           QMax(maxY, group[i].max))
          ELSE [ok |-> FALSE, minY |-> minY, maxY |-> maxY]

RECURSIVE CurvesLoop(_, _, _)
\* lines 328-335: the points of the first curve left, then the other curves
CurvesLoop(data, minY, maxY) ==
  IF data = <<>> THEN <<minY, maxY>>
  ELSE IF Head(data) = <<>> THEN CurvesLoop(Tail(data), minY, maxY)
  ELSE CurvesLoop(<<Tail(Head(data))>> \o Tail(data),
                  QMin(minY, Head(Head(data))), QMax(maxY, Head(Head(data))))

\* lines 321-370: the range of the points, widened (in tenths) and rounded
\* with std::ceil and std::floor
RangeOfPoints(data) ==
  LET r == CurvesLoop(data, DoubleMax, DoubleLowest)
      absValue == IF r[1] >= 0 THEN r[1] ELSE -r[1]
      tenths ==
        IF QFuzzyCompare(r[1], r[2])
        THEN IF QFuzzyIsNull(r[1]) THEN <<-10, 10>>
             ELSE <<10 * r[1] - absValue, 10 * r[2] + absValue>>
        ELSE <<10 * r[1] - (r[2] - r[1]), 10 * r[2] + (r[2] - r[1])>>
      maxY == -((-tenths[2]) \div 10)
      minY == tenths[1] \div 10
  IN IF QFuzzyCompare(maxY, minY) THEN <<minY - 1, maxY + 1>>
     ELSE <<minY, maxY>>

\* lines 286-375: the range after the call and whether rangeChanged is
\* emitted
CalculateAutoScaleRange(prevMinY, prevMaxY, data, group) ==
  LET first == IF data = <<>> THEN [ok |-> TRUE, minY |-> 0, maxY |-> 1]
               ELSE DatasetLoop(group, 1, TRUE, DoubleMax, DoubleLowest)
      range == IF first.ok THEN <<first.minY, first.maxY>>
               ELSE RangeOfPoints(data)
  IN [minY |-> range[1], maxY |-> range[2],
      emitted |-> \/ QFuzzyCompare(prevMinY, range[1])
                  \/ QFuzzyCompare(prevMaxY, range[2])]

\* the colour the palette holds at a position
Palette(size) == [i \in 1..size |-> i]
\* QJsonArray::at(i).toString() (lines 272-273): the colour at position i,
\* the empty string (0 here) when i is out of bounds
ColorAt(colors, i) == IF i >= 0 /\ i < Len(colors) THEN colors[i + 1] ELSE 0

\* the dataset i of the group makes line 273 evaluate count % 0
DividesByZero(colors, group, i) ==
  /\ ~(Len(colors) > group[i].index - 1)
  /\ group[i].index - 1 = 0

\* lines 270-273: the palette position read for the dataset i of the group;
\* garbage is what count % 0 gives when the division does not trap
PositionRead(colors, group, i, garbage) ==
  LET index == group[i].index - 1
  IN IF Len(colors) > index THEN index
     ELSE IF index = 0 THEN garbage
     ELSE Len(colors) % index

\* lines 253-281
OnThemeChanged(colors, group, garbage, trap) ==
  LET reads == [i \in 1..Len(group) |-> PositionRead(colors, group, i, garbage)]
      byZero == \E i \in 1..Len(group) : DividesByZero(colors, group, i)
  IN [colors |-> [i \in 1..Len(group) |-> ColorAt(colors, reads[i])],
      reads |-> reads,
      dividedByZero |-> byZero,
      trapped |-> byZero /\ trap]

\* the groups of a multiplot: up to MaxPlotDatasets datasets, each with a
\* 1-based field index and a declared range; the empty group stands for a
\* widget without a group (m_index out of range)
PlotGroups ==
  UNION {[1..n -> {[index |-> k, min |-> r[1], max |-> r[2]] :
                     k \in 1..MaxFieldIndex, r \in DatasetRanges}] :
           n \in 0..MaxPlotDatasets}

\* the constructor, lines 32-75, for a widget of the given group under a
\* theme with the given palette: the curves hold default points; declared
\* is the range of lines 35-38 and 46-52
MultiPlot(group, colors, garbage, trap) ==
  LET zeros == [i \in 1..Len(group) |-> <<0>>]
      theme == OnThemeChanged(colors, group, garbage, trap)
      mins == {DoubleMax} \cup {group[i].min : i \in 1..Len(group)}
      maxs == {DoubleLowest} \cup {group[i].max : i \in 1..Len(group)}
      declared == IF group = <<>> THEN <<0, 0>>
                  ELSE <<CHOOSE a \in mins : \A b \in mins : a <= b,
                         CHOOSE a \in maxs : \A b \in maxs : a >= b>>
      range == CalculateAutoScaleRange(declared[1], declared[2], zeros, group)
  IN /\ plotDatasets = group
     /\ widget_colors = colors
     /\ m_data = zeros
     /\ m_colors = theme.colors
     /\ colorReads = theme.reads
     /\ dividedByZero = theme.dividedByZero
     /\ trapped = theme.trapped
     /\ m_minY = range.minY
     /\ m_maxY = range.maxY
     /\ rangeChanged = TRUE
     /\ plotOp = "MultiPlot"

\* a widget without a group under a theme without palette
InitPlot == MultiPlot(<<>>, <<>>, 0, FALSE)

\* lines 194-219: the dashboard delivers new values for the curves, one
\* point a curve
updateData(values) ==
  /\ ~trapped
  /\ values # m_data
  /\ m_data' = values
  /\ plotOp' = "updateData"
  /\ UNCHANGED <<plotDatasets, widget_colors, m_minY, m_maxY, m_colors,
                 colorReads, dividedByZero, trapped, rangeChanged>>
  /\ UNCHANGED <<serverVars, parserVars, groupVars, pipelineVars, handoffLog,
                 editorVars, readBefore>>

\* lines 286-375, called by draw() for the first curve (lines 181-184)
calculateAutoScaleRange ==
  /\ ~trapped
  /\ Len(m_data) > 0
  /\ LET out == CalculateAutoScaleRange(m_minY, m_maxY, m_data, plotDatasets)
     IN /\ m_minY' = out.minY
        /\ m_maxY' = out.maxY
        /\ rangeChanged' = out.emitted
  /\ plotOp' = "calculateAutoScaleRange"
  /\ UNCHANGED <<plotDatasets, widget_colors, m_data, m_colors, colorReads,
                 dividedByZero, trapped>>
  /\ UNCHANGED <<serverVars, parserVars, groupVars, pipelineVars, handoffLog,
                 editorVars, readBefore>>

\* lines 253-281, when the theme manager announces a theme with a palette
\* of the given size
onThemeChanged(size, garbage, trap) ==
  /\ ~trapped
  /\ (\A i \in 1..Len(plotDatasets) :
        ~DividesByZero(Palette(size), plotDatasets, i))
       => (garbage = 0 /\ ~trap)
  /\ LET out == OnThemeChanged(Palette(size), plotDatasets, garbage, trap)
     IN /\ m_colors' = out.colors
        /\ colorReads' = out.reads
        /\ dividedByZero' = out.dividedByZero
        /\ trapped' = out.trapped
  /\ widget_colors' = Palette(size)
  /\ plotOp' = "onThemeChanged"
  /\ UNCHANGED <<plotDatasets, m_data, m_minY, m_maxY, rangeChanged>>
  /\ UNCHANGED <<serverVars, parserVars, groupVars, pipelineVars, handoffLog,
                 editorVars, readBefore>>

\* no frame has been produced or delivered, the editor holds the template,
\* the group has read nothing before, the widget has no group
InitExtra ==
  /\ handoffLog = <<>>
  /\ InitEditor
  /\ readBefore = NoObject
  /\ InitPlot

Init ==
  /\ InitServer
  /\ InitFrameParser
  /\ InitGroup
  /\ InitPipeline
  /\ InitExtra

\* the same, with a group that is about to read an object
InitRead ==
  /\ InitServer
  /\ InitFrameParser
  /\ InitGroupRead
  /\ InitPipeline
  /\ InitExtra

\* the same, for a group that has read an object before
InitReload ==
  /\ InitServer
  /\ InitFrameParser
  /\ InitGroupReload
  /\ InitPipeline
  /\ handoffLog = <<>>
  /\ InitEditor
  /\ InitPlot

\* the same, with a multiplot widget of any group under any palette
InitWidget ==
  /\ InitServer
  /\ InitFrameParser
  /\ InitGroup
  /\ InitPipeline
  /\ handoffLog = <<>>
  /\ InitEditor
  /\ readBefore = NoObject
  /\ \E group \in PlotGroups : \E size \in 0..MaxPalette :
       \E garbage \in -1..MaxPalette : \E trap \in BOOLEAN :
         /\ (\A i \in 1..Len(group) : ~DividesByZero(Palette(size), group, i))
              => (garbage = 0 /\ ~trap)
         /\ MultiPlot(group, Palette(size), garbage, trap)

\* the same, with a pipeline in one of the frame builder's configurations
InitBuilder ==
  /\ InitServer
  /\ InitFrameParser
  /\ InitGroup
  /\ \E mode \in BuilderModes : Pipeline(mode[1], mode[2])
  /\ InitExtra

\* the same, with a framer in a detection mode that uses delimiters
InitFramer ==
  /\ InitServer
  /\ InitFrameParser
  /\ InitGroup
  /\ \E mode \in FrameDetections \ {"NoDelimiters"} :
       Pipeline(mode, "PlainText")
  /\ InitExtra

(***************************************************************************)
(* Specifications.  Spec is the whole server.  The other specifications   *)
(* of the server leave out the slots that cannot touch the variables their *)
(* properties read, so that the remaining ones can be explored to larger   *)
(* bounds.  SpecParser is the frame parser, SpecGroup the reading of a     *)
(* group.                                                                  *)
(***************************************************************************)
\* connection life cycle, shared by every specification
Lifecycle ==
  \/ \E enabled \in BOOLEAN : setEnabled(enabled)
  \/ \E socket \in Sockets \cup {NullSocket} : acceptConnection(socket)
  \/ \E socket \in Sockets : removeConnection(socket)
  \/ \E socket \in Sockets : socketUnwritable(socket)

\* frames: production, queued registration, 1 Hz flush
NextBatch ==
  \/ Lifecycle
  \/ sendProcessedData
  \/ registerFrame
  \/ frameChanged(MaxFrames)

\* frames and raw chunks; a null pending connection, which writes nothing
\* and stores nothing, is left out
NextRaw ==
  \/ \E enabled \in BOOLEAN : setEnabled(enabled)
  \/ \E socket \in Sockets : acceptConnection(socket)
  \/ \E socket \in Sockets : removeConnection(socket)
  \/ \E socket \in Sockets : socketUnwritable(socket)
  \/ sendProcessedData
  \/ registerFrame
  \/ frameChanged(MaxRawFrames)
  \/ sendRawData
  \/ dataReceived(MaxRaw)

\* frames and raw chunks, several of each, on MaxFifoSockets connections;
\* null pending connections are left out here too
NextFifo ==
  \/ \E enabled \in BOOLEAN : setEnabled(enabled)
  \/ \E socket \in 1..MaxFifoSockets : acceptConnection(socket)
  \/ \E socket \in Sockets : removeConnection(socket)
  \/ \E socket \in Sockets : socketUnwritable(socket)
  \/ sendProcessedData
  \/ registerFrame
  \/ frameChanged(MaxFifoFrames)
  \/ sendRawData
  \/ dataReceived(MaxFifoRaw)

\* frames, with one frame more than NextBatch produces
NextStale ==
  \/ Lifecycle
  \/ sendProcessedData
  \/ registerFrame
  \/ frameChanged(MaxFrames + 1)

\* bytes and errors coming from the plugins
NextInbound ==
  \/ Lifecycle
  \/ \E socket \in Sockets : \E data \in ByteChunks :
       onDataReceived(socket, data)
  \/ \E socket \in Sockets : onErrorOccurred(socket)

\* disconnects and socket errors while frames wait in PendingBatch
NextTeardown ==
  \/ Lifecycle
  \/ registerFrame
  \/ frameChanged(MaxRawFrames)
  \/ \E socket \in Sockets : onErrorOccurred(socket)

\* the queued handoff of frames under enable, disable and flush ticks
NextHandoff ==
  \/ \E enabled \in BOOLEAN : setEnabled(enabled)
  \/ \E socket \in 1..MaxFifoSockets : acceptConnection(socket)
  \/ frameChangedObserved(MaxFifoFrames)
  \/ registerFrameObserved
  \/ sendProcessedData

\* the code editor: typing, save and apply, reload, import and project loads
NextEditor ==
  \/ \E text \in EditorScripts : textChanged(text)
  \/ \E silent, notify \in BOOLEAN : save(silent, notify)
  \/ \E yes, notify \in BOOLEAN : reload(yes, notify)
  \/ \E yes, notify \in BOOLEAN : \E file \in EditorScripts :
       import(yes, file, notify)
  \/ \E code \in EditorScripts : readCode(code)

\* the multiplot widget: new values, redraws and theme changes
NextPlot ==
  \/ \E values \in [1..Len(plotDatasets) -> {<<y>> : y \in YValues}] :
       updateData(values)
  \/ calculateAutoScaleRange
  \/ \E size \in 0..MaxPalette : \E garbage \in -1..MaxPalette :
       \E trap \in BOOLEAN : onThemeChanged(size, garbage, trap)

\* the frame parser: script loads, live parse calls, separator changes
NextParser ==
  \/ \E script \in Scripts : loadScript(script)
  \/ \E frame \in LiveFrames : parse(frame, m_separator)
  \/ \E separator \in Separators : setSeparator(separator)

\* a group read from project files
NextGroup ==
  read

\* the frame builder: reads that are whole frames, script loads, and the
\* server's side of the frame notifications
NextBuilder ==
  \/ \E data \in Payloads : readyRead(data, MaxCycles, MaxBuilderBytes)
  \/ \E script \in BuilderScripts : loadScript(script)
  \/ registerFrame
  \/ \E enabled \in BOOLEAN : setEnabled(enabled)

\* the framer: reads of a byte stream cut at any place, and the close of
\* the transport
NextFramer ==
  \/ \E data \in FramerChunks : readyRead(data, MaxStream, MaxStream)
  \/ transportClosed

Next ==
  \/ Lifecycle
  \/ \E socket \in Sockets : \E data \in ByteChunks :
       onDataReceived(socket, data)
  \/ \E socket \in Sockets : onErrorOccurred(socket)
  \/ sendProcessedData
  \/ sendRawData
  \/ registerFrame
  \/ frameChanged(MaxFrames)
  \/ dataReceived(MaxRaw)

Spec == Init /\ [][Next]_vars
SpecBatch == Init /\ [][NextBatch]_vars
SpecRaw == Init /\ [][NextRaw]_vars
SpecInbound == Init /\ [][NextInbound]_vars
SpecStale == Init /\ [][NextStale]_vars
SpecFifo == Init /\ [][NextFifo]_vars
SpecTeardown == Init /\ [][NextTeardown]_vars
SpecHandoff == Init /\ [][NextHandoff]_vars
SpecEditor == Init /\ [][NextEditor]_vars
SpecPlot == InitWidget /\ [][NextPlot]_vars
SpecParser == Init /\ [][NextParser]_vars
SpecGroup == InitRead /\ [][NextGroup]_vars
SpecReload == InitReload /\ [][NextGroup]_vars
SpecFramer == InitFramer /\ [][NextFramer]_vars
SpecBuilder == InitBuilder /\ [][NextBuilder]_vars

(***************************************************************************)
(* Properties of the plugin broadcast server.                              *)
(***************************************************************************)
Last(seq) == seq[Len(seq)]

\* the connections of the active set that answer isWritable() with true
WritableConnections == {s \in Range(m_sockets) : sockState[s] = "open"}

\* the batch message the protocol prescribes for a list of frames
ExpectedBatch(frames) ==
  [key |-> "frames",
   items |-> [i \in 1..Len(frames) |-> [tag |-> "json", val |-> frames[i]]],
   end |-> "\n"]

\* the raw message the protocol prescribes for a chunk
ExpectedRaw(data) ==
  [key |-> "data", items |-> <<[tag |-> "base64", val |-> data]>>,
   end |-> "\n"]

\* how often frame f occurs in the batch messages written to socket s
BatchCopies(s, f) ==
  Cardinality({ij \in (1..Len(written[s])) \X (1..(MaxFrames + 2)) :
                 /\ written[s][ij[1]].key = "frames"
                 /\ ij[2] <= Len(written[s][ij[1]].items)
                 /\ written[s][ij[1]].items[ij[2]].val = f})

\* C1: a flush that runs while Enabled with a non-empty PendingBatch and at
\* least one connection appends one and the same newline-terminated batch
\* message, holding the pending frames once each in registration order (the
\* order of the frame ids), to every writable connection, writes nothing to
\* any other socket, and leaves PendingBatch empty.
C1_FlushWritesBatch ==
  [][(/\ lastOp'[1] = "sendProcessedData"
      /\ m_enabled /\ m_frames # <<>> /\ m_sockets # <<>>)
     => /\ \A i \in 1..Len(m_frames) : \A j \in 1..Len(m_frames) :
             i < j => m_frames[i] < m_frames[j]
        /\ written' = [s \in Sockets |->
             IF s \in WritableConnections
             THEN Append(written[s], ExpectedBatch(m_frames))
             ELSE written[s]]
        /\ m_frames' = <<>>]_vars

\* C1 witness: a flush has just written a batch of two frames or more to a
\* writable connection while an unwritable connection of the set got nothing.
C1_Witness ==
  /\ lastOp[1] = "sendProcessedData"
  /\ m_frames = <<>>
  /\ \E s \in Range(m_sockets) : \E t \in Range(m_sockets) :
       /\ sockState[s] = "open"
       /\ sockState[t] = "unwritable"
       /\ written[s] # <<>>
       /\ Len(Last(written[s]).items) >= 2
       /\ written[t] = <<>>

\* C2: after every flush tick PendingBatch is empty, whether or not a
\* connection existed or was writable at that tick.
C2_EmptyAfterEveryFlush ==
  lastOp[1] = "sendProcessedData" => m_frames = <<>>

\* C3: with the subsystem Enabled and a writable client connected, when
\* exactly three frames were produced since the previous flush tick, all of
\* them after the last client was accepted, and all three are registered,
\* the flush tick appends exactly one batch message with exactly three
\* entries to every such client and leaves PendingBatch empty.
C3_ThreeFramesOneBatch ==
  [][(/\ lastOp'[1] = "sendProcessedData"
      /\ m_enabled
      /\ WritableConnections # {}
      /\ tickMark >= 0
      /\ ~earlyFrame
      /\ nextFrame = tickMark + 3
      /\ frameQueue = <<>>
      /\ (tickMark + 1)..(tickMark + 3) \subseteq Range(m_frames))
     => /\ \A s \in WritableConnections :
             /\ Len(written'[s]) = Len(written[s]) + 1
             /\ Len(Last(written'[s]).items) = 3
        /\ m_frames' = <<>>]_vars

\* C4: a flush tick that follows another flush tick, with no frame produced
\* or registered in between, sends no message and leaves PendingBatch empty.
C4_SecondFlushSendsNothing ==
  [][(/\ lastOp'[1] = "sendProcessedData"
      /\ tickMark >= 0
      /\ tickMark = nextFrame)
     => /\ written' = written
        /\ m_frames' = <<>>]_vars

\* C5: no frame is written to the same plugin connection in more than one
\* batch message, nor twice in one message.
C5_AtMostOnce ==
  \A s \in Sockets : \A f \in 1..(MaxFrames + 1) : BatchCopies(s, f) <= 1

\* C5 witness: a flush has just written a second batch message to a
\* connection that had received one before.
C5_Witness ==
  \E s \in Sockets :
    /\ Len(written[s]) >= 2
    /\ written[s][1].key = "frames"
    /\ written[s][2].key = "frames"
    /\ lastOp[1] = "sendProcessedData"

\* C6: handling a raw chunk while Enabled with at least one connection
\* appends exactly one message carrying the chunk to every writable
\* connection and to no other socket; while Disabled or without a connection
\* nothing is written.  The chunk never enters PendingBatch, and no socket is
\* ever given the same chunk twice, by a flush tick or otherwise.
C6_RawForwardedOnce ==
  [][/\ (lastOp'[1] = "sendRawData" /\ rawQueue # <<>>)
        => /\ written' = [s \in Sockets |->
                IF m_enabled /\ m_sockets # <<>> /\ s \in WritableConnections
                THEN Append(written[s], ExpectedRaw(Head(rawQueue)))
                ELSE written[s]]
           /\ m_frames' = m_frames
     /\ \A s \in Sockets : \A i \in 1..Len(written'[s]) :
          /\ written'[s][i].key = "frames"
               => \A j \in 1..Len(written'[s][i].items) :
                    written'[s][i].items[j].tag = "json"
          /\ written'[s][i].key = "data"
               => \A j \in (i + 1)..Len(written'[s]) :
                    written'[s][j].key = "data"
                      => written'[s][j].items[1].val
                           # written'[s][i].items[1].val]_vars

\* C6 witness: a raw chunk went to a writable connection and not to an
\* unwritable one, and a flush tick has since sent a batch to the former.
C6_Witness ==
  /\ lastOp[1] = "sendProcessedData"
  /\ \E s \in Range(m_sockets) : \E t \in Range(m_sockets) :
       /\ sockState[t] = "unwritable"
       /\ written[t] = <<>>
       /\ Len(written[s]) = 2
       /\ written[s][1].key = "data"
       /\ written[s][2].key = "frames"

\* C7: bytes a plugin connection delivers while the subsystem is Enabled are
\* appended unchanged to the transport's writes, and while it is Disabled no
\* step writes anything to the transport.
C7_InboundForwarded ==
  [][/\ (lastOp'[1] = "onDataReceived" /\ m_enabled)
        => ioWritten' = Append(ioWritten, lastOp'[2])
     /\ ~m_enabled => ioWritten' = ioWritten]_vars

\* C7 witness: a plugin's chunk 1 was forwarded, and chunk 2, received while
\* the subsystem was Disabled, was not.
C7_Witness ==
  /\ ~m_enabled
  /\ lastOp = <<"onDataReceived", 2>>
  /\ ioWritten = <<1>>

\* C8: in every state in which the subsystem is Disabled the active set and
\* PendingBatch are empty and no accepted connection is still open, because
\* disabling aborted every one of them.
C8_DisabledHasNoConnection ==
  ~m_enabled =>
    /\ m_sockets = <<>>
    /\ m_frames = <<>>
    /\ \A s \in Sockets : sockState[s] \notin {"open", "unwritable"}

\* The part of C8 that does hold: while Disabled the active set and
\* PendingBatch are empty.
DisabledSetsEmpty ==
  ~m_enabled => m_sockets = <<>> /\ m_frames = <<>>

\* C9: a pending socket is appended to the active set exactly when the
\* subsystem is Enabled as acceptConnection runs; when Disabled the socket is
\* closed and the set unchanged; and nothing else adds a socket to the set.
C9_AcceptIffEnabled ==
  [][\A s \in Sockets :
       /\ (sockState[s] = "unborn" /\ sockState'[s] # "unborn")
            => IF m_enabled
               THEN m_sockets' = Append(m_sockets, s) /\ sockState'[s] = "open"
               ELSE m_sockets' = m_sockets /\ sockState'[s] = "gone"
       /\ (s \in Range(m_sockets') /\ s \notin Range(m_sockets))
            => sockState[s] = "unborn" /\ m_enabled]_vars

\* C9 witness: acceptConnection has just run on socket 1 while Disabled and
\* closed it; the active set is empty.
C9_Witness ==
  /\ lastOp = <<"acceptConnection", 1>>
  /\ ~m_enabled
  /\ sockState[1] = "gone"
  /\ m_sockets = <<>>

\* C10: once a connection has disconnected it is not in the active set, and
\* no later step writes a raw or batch message to it.
C10_NoWriteAfterDisconnect ==
  [][\A s \in Sockets :
       /\ sockState'[s] = "gone" => s \notin Range(m_sockets')
       /\ sockState[s] = "gone" => written'[s] = written[s]]_vars

\* C10 witness: two connections received the same message, one of them has
\* since disconnected, and the one still in the active set has been written
\* a later message that the disconnected one did not get.
C10_Witness ==
  \E s \in Sockets : \E t \in Range(m_sockets) :
    /\ sockState[s] = "gone"
    /\ written[s] # <<>>
    /\ Len(written[t]) > Len(written[s])
    /\ SubSeq(written[t], 1, Len(written[s])) = written[s]

\* C11: once the error handler has run for a plugin connection, that
\* connection is not in the active set any more.
C11_ErrorTearsDown ==
  lastOp[1] = "onErrorOccurred" => lastOp[2] \notin Range(m_sockets)

\* C12: after a failed bind of the listening port the subsystem is never
\* Enabled and holds no connection.
C12_FailedBindStaysDisabled ==
  ~listening => ~m_enabled /\ m_sockets = <<>>

\* the chunks of the raw messages in a list of messages, in list order
RawVals(msgs) ==
  LET raws == SelectSeq(msgs, LAMBDA m : m.key = "data")
  IN [i \in 1..Len(raws) |-> raws[i].items[1].val]

RECURSIVE BatchVals(_)
\* the frames of the batch messages in a list of messages, in list order
BatchVals(msgs) ==
  IF msgs = <<>> THEN <<>>
  ELSE (IF Head(msgs).key = "frames"
        THEN [i \in 1..Len(Head(msgs).items) |-> Head(msgs).items[i].val]
        ELSE <<>>) \o BatchVals(Tail(msgs))

Increasing(seq) ==
  \A i \in 1..Len(seq) : \A j \in 1..Len(seq) : i < j => seq[i] < seq[j]

Raises(fun, frame, separator) ==
  Call(fun, frame, separator).kind \in {"error", "string"}

\* the script given to the last loadScript passed the three phases:
\* evaluation without errors, a callable parse in the global scope, a smoke
\* invocation that did not throw
PassedAllPhases ==
  /\ loadArg.errors = "none"
  /\ IsCallable(m_engine)
  /\ ~Raises(m_engine, EmptyFrame, ",")

\* C14: loadScript returns true exactly when the script passed the three
\* phases, and the active function changes only in that case, to the
\* function the loaded script declared.
C14_ReplacedOnlyAfterThreePhases ==
  [][parserOp' = "loadScript" /\ loadCount' = loadCount + 1
     => /\ loadResult' = PassedAllPhases'
        /\ m_parseFunction' # m_parseFunction
             => /\ PassedAllPhases'
                /\ m_parseFunction' = Function(loadArg', loadCount')]_vars

\* C15: a loadScript that returns false leaves the active function as it
\* was, and a parse call invokes the active function, returns what that
\* function returns and leaves it active.
C15_FailedLoadKeepsFunction ==
  [][/\ (parserOp' = "loadScript" /\ loadCount' = loadCount + 1
          /\ ~loadResult')
        => m_parseFunction' = m_parseFunction
     /\ parserOp' = "parse"
        => /\ called'[1] = m_parseFunction
           /\ m_parseFunction' = m_parseFunction
           /\ (/\ IsCallable(m_parseFunction)
               /\ ~Raises(m_parseFunction, called'[2], called'[3]))
                => parseOut' = Call(m_parseFunction, called'[2],
                                    called'[3]).list]_vars

\* C15 witness: after a script that declared a parse function failed to
\* load, a parse call invoked the function that was active before, which
\* returned its fields.
C15_Witness ==
  /\ parserOp = "parse"
  /\ ~loadResult
  /\ loadArg.defines = "function"
  /\ IsCallable(m_parseFunction)
  /\ m_parseFunction.gen < loadCount
  /\ m_engine # m_parseFunction
  /\ called[1] = m_parseFunction
  /\ parseOut = <<called[2], called[3]>>

\* C16: loading a script that evaluates without errors and does not leave
\* a callable parse of its own fails with MissingEntryPoint, whatever was
\* loaded before, and the active function stays as it was.
C16_NoParseIsMissingEntryPoint ==
  [][(/\ parserOp' = "loadScript" /\ loadCount' = loadCount + 1
      /\ loadArg'.errors = "none"
      /\ loadArg'.defines # "function")
     => /\ ~loadResult'
        /\ message' = MissingEntryPointBox
        /\ m_parseFunction' = m_parseFunction]_vars

\* C17: when loadScript makes the smoke invocation, it calls parse exactly
\* once, with the empty frame and the separator configured at that moment.
C17_SmokeUsesConfiguredSeparator ==
  (parserOp = "loadScript" /\ IsCallable(m_engine))
    => smokeCalls = <<<<EmptyFrame, m_separator>>>>

\* C17, amended: loadScript calls parse exactly once when the global scope
\* holds a callable parse after the evaluation, and not at all otherwise;
\* the call is given the empty frame and the separator ",", whatever
\* separator is configured.
C17_SmokeUsesComma ==
  parserOp \in {"FrameParser", "loadScript"}
    => smokeCalls = IF IsCallable(m_engine)
                    THEN <<<<EmptyFrame, ",">>>>
                    ELSE <<>>

\* C17 witness: with ";" configured, a script with evaluation errors was
\* loaded over a callable parse, and the smoke invocation was made with ",".
C17_Witness ==
  /\ parserOp = "loadScript"
  /\ m_separator = ";"
  /\ loadArg.errors # "none"
  /\ smokeCalls = <<<<EmptyFrame, ",">>>>

\* C18: when the function invoked by a parse call throws, the call returns
\* no fields and an error is shown to the operator.
C18_LiveExceptionReported ==
  (parserOp = "parse" /\ Raises(called[1], called[2], called[3]))
    => parseOut = <<>> /\ message # NoMessage

\* the message the order evaluation, contract check, smoke invocation
\* prescribes for the script given to the last loadScript
ExpectedBox ==
  IF loadArg.errors # "none" THEN SyntaxErrorBox
  ELSE IF ~IsCallable(m_engine) THEN MissingEntryPointBox
  ELSE IF Raises(m_engine, EmptyFrame, ",")
       THEN RuntimeErrorBox(IF m_engine.script.smoke \in ErrorTypes
                            THEN m_engine.script.smoke
                            ELSE "unknown")
  ELSE NoMessage

\* C19: a failed load is reported with the category of the first failing
\* phase in the order evaluation, contract check, smoke invocation.
C19_FirstFailingPhaseReported ==
  (parserOp = "loadScript" /\ ~loadResult) => message = ExpectedBox

(***************************************************************************)
(* Properties of reading a group.                                          *)
(***************************************************************************)
\* the object has a title with a character that is not white space
HasTitle(object) ==
  object.hasTitle /\ \E i \in 1..Len(object.title) : object.title[i] # " "

\* an entry of the object's datasets array is parsed as a Dataset
HasParsedDataset(object) ==
  /\ object.hasDatasets
  /\ \E i \in 1..Len(object.datasets) : object.datasets[i] = "valid"

\* C20: read returns true exactly when the object has a title that is not
\* empty after white space normalisation and an entry of its datasets array
\* is parsed as a Dataset.
C20_ReadAcceptsIff ==
  readDone => (readResult <=> HasTitle(readArg) /\ HasParsedDataset(readArg))

\* C20 witness: read accepted an object whose title has white space around
\* it and whose array holds an entry that is not parsed before one that is.
C20_Witness ==
  /\ readDone
  /\ readResult
  /\ Head(readArg.title) = " "
  /\ readArg.datasets = <<"invalid", "valid">>
  /\ m_title = <<"a">>
  /\ m_datasets = <<[groupId |-> m_groupId, index |-> 1]>>

\* C21: a Group is rejected as a whole: when read returns false, the title,
\* the widget and the datasets of the Group are the same as before the call.
C21_RejectedAsAWhole ==
  [][(~readDone /\ readDone' /\ ~readResult')
       => /\ m_title' = m_title
          /\ m_widget' = m_widget
          /\ m_datasets' = m_datasets]_vars


(***************************************************************************)
(* Properties of the ingestion pipeline.                                   *)
(***************************************************************************)
RECURSIVE DelimitedSpans(_)
\* the spans of a byte stream that lie strictly between a start sequence
\* and the next end sequence after it, found from left to right
DelimitedSpans(s) ==
  LET i == IndexOf(s, StartSequence)
      afterStart == Drop(s, i + Len(StartSequence) - 1)
      j == IndexOf(afterStart, EndSequence)
  IN IF i = 0 \/ j = 0 THEN <<>>
     ELSE <<SubSeq(afterStart, 1, j - 1)>>
            \o DelimitedSpans(Drop(afterStart, j + Len(EndSequence) - 1))

\* C22: under StartAndEndDelimiter the emitted frames are exactly the spans
\* strictly between a start sequence and the next end sequence; bytes
\* before a start sequence or after an end sequence are never emitted.
C22_FramesAreDelimitedSpans ==
  detection = "StartAndEndDelimiter" => emitted = DelimitedSpans(stream)

\* C22 witness: the stream A/*A*/ has been read and the one frame emitted
\* is A.
C22_Witness ==
  /\ detection = "StartAndEndDelimiter"
  /\ stream = <<65, 47, 42, 65, 42, 47>>
  /\ emitted = <<<<65>>>>

\* the frames the framer emits when the stream arrives in a single read
UnsplitFrames == StreamFramer(detection, "Idle", <<>>, stream).frames

\* C23: under EndDelimiterOnly and StartAndEndDelimiter the frames emitted
\* are those of the unsplit stream, however the stream was split into
\* reads, and no EndDelimiterOnly frame contains the end sequence.
C23_FramesIndependentOfSplits ==
  detection \in {"EndDelimiterOnly", "StartAndEndDelimiter"} =>
    /\ emitted = UnsplitFrames
    /\ detection = "EndDelimiterOnly" =>
         \A k \in 1..Len(emitted) : IndexOf(emitted[k], EndSequence) = 0

\* C23 witness: the stream A*/ arrived with / in a read of its own, a split
\* that cuts the end sequence in two, and the frame A was emitted.
C23_Witness ==
  /\ detection = "EndDelimiterOnly"
  /\ stream = <<65, 42, 47>>
  /\ lastRead = <<47>>
  /\ emitted = <<<<65>>>>

\* C24: when the transport closes, the bytes accumulated without an end
\* sequence are dropped: no frame is emitted and no StructuredFrame is
\* built in that step.
C24_PartialFrameDiscarded ==
  [][(~closed /\ closed')
       => /\ emitted' = emitted
          /\ built' = built
          /\ log' = log
          /\ frameQueue' = frameQueue
          /\ buffer' = <<>>]_vars

\* C24 witness: the transport closed after /*A, and the A that was waiting
\* for an end sequence was dropped without a frame.
C24_Witness ==
  /\ closed
  /\ detection = "StartAndEndDelimiter"
  /\ stream = <<47, 42, 65>>
  /\ discarded = <<65>>
  /\ emitted = <<>>
  /\ built = <<>>


\* C25: in every StructuredFrame the value of every Dataset is the field at
\* the Dataset's index when the FieldList reaches it, and the value of the
\* previous StructuredFrame when it does not.
C25_ValuesFromFieldList ==
  \A k \in 1..Len(built) : \A d \in 1..Len(DatasetIndexes) :
    built[k].values[d] =
      IF 1 <= DatasetIndexes[d] /\ DatasetIndexes[d] <= Len(built[k].fields)
      THEN built[k].fields[DatasetIndexes[d]]
      ELSE IF k = 1 THEN <<>> ELSE built[k - 1].values[d]

\* C25 witness: after the fields "1", "2" a frame with the single field
\* "31" was built, and the second Dataset still has the value "2".
C25_Witness ==
  /\ Len(built) = 2
  /\ built[1].fields = <<<<49>>, <<50>>>>
  /\ built[2].fields = <<<<51, 49>>>>
  /\ built[2].values = <<<<51, 49>>, <<50>>, <<>>>>


\* the frames the framer emitted in this step
StepFrames == SubSeq(emitted', Len(emitted) + 1, Len(emitted'))

\* the FieldList of the cycle of a frame
FieldList(frame) ==
  ParseFields(m_parseFunction, decode(frame, decoderMethod), m_separator)

\* the cycles of this step that have a FieldList with fields
WithFields ==
  {k \in 1..Len(StepFrames) :
     /\ decode(StepFrames[k], decoderMethod) # <<>>
     /\ FieldList(StepFrames[k]) # <<>>}

\* C26: a read builds one StructuredFrame for every cycle whose FieldList
\* has fields and none for a cycle whose FieldList is empty; a read that
\* builds none leaves the dashboard's log, the notification queue and
\* PendingBatch as they were and shows no error.
C26_EmptyFieldListBuildsNothing ==
  [][stream' # stream
       => /\ Len(built') = Len(built) + Cardinality(WithFields)
          /\ Len(frameQueue') = Len(frameQueue) + Cardinality(WithFields)
          /\ WithFields = {}
               => /\ built' = built
                  /\ log' = log
                  /\ frameQueue' = frameQueue
                  /\ m_frames' = m_frames
                  /\ message' \in {message, NoMessage}]_vars

\* C26 witness: with frame 1 in PendingBatch, a script whose parse()
\* returns no fields was loaded and the frame "1,2" was read: parse() was
\* called, no second StructuredFrame was built, PendingBatch still holds
\* frame 1.
C26_Witness ==
  /\ decoderMethod = "PlainText"
  /\ detection = "NoDelimiters"
  /\ stream = <<49, 44, 50, 49, 44, 50>>
  /\ lastRead = <<49, 44, 50>>
  /\ m_parseFunction.script = EmptyListCode
  /\ called = <<m_parseFunction, <<49, 44, 50>>, ",">>
  /\ parseOut = <<>>
  /\ Len(built) = 1
  /\ m_frames = <<1>>
  /\ frameQueue = <<>>
  /\ message = NoMessage

\* bytes that are not what the decoder method requires
Malformed(frame, method) ==
  \/ /\ method = "Hexadecimal"
     /\ \/ Len(frame) % 2 = 1
        \/ \E i \in 1..Len(frame) : ~IsHexDigit(frame[i])
  \/ /\ method = "Base64"
     /\ \/ Len(frame) % 4 # 0
        \/ \E i \in 1..Len(frame) :
             /\ ~IsBase64Char(frame[i])
             /\ ~(frame[i] = 61 /\ i > Len(frame) - 2)

\* C27: a read that is a frame malformed for the decoder decodes to the
\* empty result, builds no StructuredFrame and shows no error; a read that
\* is a well-formed frame is built into a StructuredFrame by the template
\* script, whatever was read before it.
C27_MalformedFrameDropped ==
  [][(stream' # stream /\ detection = "NoDelimiters")
       => /\ Malformed(lastRead', decoderMethod)
               => /\ decode(lastRead', decoderMethod) = <<>>
                  /\ built' = built
                  /\ log' = log
                  /\ frameQueue' = frameQueue
                  /\ message' = message
                  /\ ~closed'
          /\ (~Malformed(lastRead', decoderMethod)
                /\ m_parseFunction.script = DefaultCode)
               => Len(built') = Len(built) + 1]_vars

\* C27 witness: under Hexadecimal the odd-length frame "313" was read and
\* dropped, and the frame "31" read after it was built into a
\* StructuredFrame with the field "1".
C27_Witness ==
  /\ decoderMethod = "Hexadecimal"
  /\ stream = <<51, 49, 51, 51, 49>>
  /\ emitted = <<<<51, 49, 51>>, <<51, 49>>>>
  /\ Len(built) = 1
  /\ built[1].fields = <<<<49>>>>
  /\ message = NoMessage

IsDashboard(event) == event[1] = "dashboard"

\* the ids of the frames the dashboard consumer received, in order
DashboardIds ==
  LET received == SelectSeq(log, IsDashboard)
  IN [k \in 1..Len(received) |-> received[k][2]]

\* C28: the dashboard consumer receives the StructuredFrames built, each
\* once and in build order; it receives a frame right after the frame is
\* built, before the next one is built, and before the frame is in the
\* notification queue or in PendingBatch.
C28_DashboardSynchronous ==
  /\ DashboardIds = [k \in 1..Len(built) |-> built[k].id]
  /\ \A i \in 1..Len(log) :
       log[i][1] = "built"
         => i < Len(log) /\ log[i + 1] = <<"dashboard", log[i][2]>>
  /\ \A id \in Range(m_frames) \cup Range(frameQueue) :
       <<"dashboard", id>> \in Range(log)

\* C28 witness: one read held two frames; the dashboard received frame 1
\* before frame 2 was built, and both before frame 1 was in PendingBatch.
C28_Witness ==
  /\ detection = "EndDelimiterOnly"
  /\ stream = <<49, 42, 47, 50, 42, 47>>
  /\ lastRead = <<49, 42, 47, 50, 42, 47>>
  /\ log = <<<<"built", 1>>, <<"dashboard", 1>>,
             <<"built", 2>>, <<"dashboard", 2>>>>
  /\ m_frames = <<1>>
  /\ frameQueue = <<2>>

\* C29: the sequence ids of the StructuredFrames increase in build order.
C29_SequenceIdsIncrease ==
  \A k \in 1..Len(built) : \A l \in 1..Len(built) :
    k < l => built[k].id < built[l].id

\* C29 witness: two frames were built from Base64 reads, with the ids 1
\* and 2.
C29_Witness ==
  /\ decoderMethod = "Base64"
  /\ Len(built) = 2
  /\ built[1].id = 1
  /\ built[2].id = 2


(***************************************************************************)
(* Properties of the teardown of one connection.                           *)
(***************************************************************************)
\* the connections of a list other than socket, in list order
Others(list, socket) == SelectSeq(list, LAMBDA t : t # socket)

\* C30: a removeConnection or onErrorOccurred step for one connection
\* leaves the other connections in the active set in the same order, leaves
\* them as writable and as written as they were, and leaves PendingBatch
\* and the Enabled state unchanged.
C30_OtherConnectionsUntouched ==
  [][\A socket \in Sockets :
       (removeConnection(socket) \/ onErrorOccurred(socket))
         => /\ Others(m_sockets', socket) = Others(m_sockets, socket)
            /\ \A t \in Sockets \ {socket} :
                 /\ sockState'[t] = sockState[t]
                 /\ written'[t] = written[t]
            /\ m_frames' = m_frames
            /\ m_enabled' = m_enabled]_vars

\* C30 witness: connection 1 has disconnected and the error handler has
\* run for connection 2; connection 2 is in the active set, a frame waits
\* in PendingBatch and the subsystem is Enabled.
C30_Witness ==
  /\ lastOp = <<"onErrorOccurred", 2>>
  /\ sockState[1] = "gone"
  /\ m_sockets = <<2>>
  /\ m_frames = <<1>>
  /\ m_enabled

(***************************************************************************)
(* Properties of the flush over time.                                      *)
(***************************************************************************)
\* C31: while the subsystem stays Enabled and the active set stays
\* non-empty, a frame leaves PendingBatch only by a flush tick, and that
\* tick writes it to every connection that is writable (the claim adds that
\* the tick comes eventually, the 1 Hz timer firing forever).
C31_FramesLeaveByFlush ==
  [][\A f \in Range(m_frames) :
       (/\ m_enabled /\ m_enabled'
        /\ m_sockets # <<>> /\ m_sockets' # <<>>
        /\ f \notin Range(m_frames'))
         => /\ lastOp'[1] = "sendProcessedData"
            /\ \A s \in WritableConnections :
                 /\ Len(written'[s]) = Len(written[s]) + 1
                 /\ f \in Range(BatchVals(<<Last(written'[s])>>))]_vars

\* the timer keeps firing: the flush tick is taken again and again
SpecBatchFair == SpecBatch /\ WF_vars(sendProcessedData)

\* with the timer firing forever, a frame in PendingBatch eventually is not
\* in it any more, or the active set is empty
FramesLeaveEventually ==
  \A f \in 1..MaxFrames :
    (f \in Range(m_frames)) ~> (f \notin Range(m_frames) \/ m_sockets = <<>>)

\* the frames the history shows produced while Enabled and delivered while
\* not Enabled
Dropped ==
  {f \in 1..(MaxFifoFrames + 1) :
     \E i, j \in 1..Len(handoffLog) :
       /\ i < j
       /\ handoffLog[i] = <<"produced", f, TRUE>>
       /\ handoffLog[j] = <<"delivered", f, FALSE>>}

\* C32: a frame enters PendingBatch only by the delivery of its queued
\* notification, and then if and only if the subsystem is Enabled at that
\* moment; a frame produced while Enabled and delivered while not Enabled is
\* neither in PendingBatch nor in any batch written afterwards.
C32_AppendedIffEnabledAtDelivery ==
  [][/\ \A f \in 1..(MaxFifoFrames + 1) :
          /\ (\E e \in BOOLEAN :
                handoffLog' = Append(handoffLog, <<"delivered", f, e>>))
               => /\ Last(handoffLog')[3] = m_enabled
                  /\ (f \in Range(m_frames')) <=> m_enabled
          /\ (f \in Range(m_frames') /\ f \notin Range(m_frames))
               => handoffLog' = Append(handoffLog, <<"delivered", f, TRUE>>)
     /\ \A f \in Dropped' :
          /\ f \notin Range(m_frames')
          /\ \A s \in Sockets : f \notin Range(BatchVals(written'[s]))]_vars

\* frame 1 was produced while Enabled and dropped at its delivery, and a
\* later batch with frame 2 alone has been written
C32_Witness ==
  /\ Dropped = {1}
  /\ \E s \in Sockets : BatchVals(written[s]) = <<2>>

\* C33: a loadScript that returns false leaves the global scope of the
\* engine as it was, and the active parse function gives, for every frame
\* and separator, the field list it gave before the load.
C33_FailedLoadLeavesScope ==
  [][(loadCount' = loadCount + 1 /\ ~loadResult')
       => /\ m_engine' = m_engine
          /\ \A frame \in LiveFrames \cup {EmptyFrame} :
               \A separator \in Separators :
                 ToStringList(Call(m_parseFunction', frame, separator))
                   = ToStringList(Call(m_parseFunction, frame, separator))]_vars

\* what loadScript returns for the text the editor holds
LoadsNow == LoadScript(m_textEdit, m_engine, m_parseFunction, loadCount + 1).result

\* C34: save() returns what loadScript returned for the editor text; when
\* that is true the project's parser code is the editor text and the
\* document is not modified; when it is false the project's parser code and
\* the modified flag are what they were.
C34_SaveOnlyOnSuccessfulLoad ==
  [][(parserOp' = "save")
       => /\ saveResult' = LoadsNow
          /\ LoadsNow => /\ m_frameParserCode' = m_textEdit
                         /\ ~modified'
          /\ ~LoadsNow => /\ m_frameParserCode' = m_frameParserCode
                          /\ modified' = modified
                          /\ m_textEdit' = m_textEdit]_vars

\* a save has failed: the document is still modified and the project still
\* holds the code of before, which is not the text of the editor
C34_Witness ==
  /\ parserOp = "save"
  /\ ~saveResult
  /\ modified
  /\ m_frameParserCode # m_textEdit
  /\ m_frameParserCode = DefaultCode

\* C35: whenever the document of the editor is not modified, the last
\* loadScript was given the text of the editor and accepted it, and the
\* active parse function is the one that load found in the engine.
C35_UnmodifiedTextIsActive ==
  ~modified => /\ loadArg = m_textEdit
               /\ loadResult
               /\ m_parseFunction = m_engine

\* the 1-based positions of the entries of array that Dataset::read accepts
ParsedEntries(array) ==
  SelectSeq([i \in 1..Len(array) |-> i], LAMBDA i : array[i] = "valid")

\* C36: after a read that returns true, the datasets of the Group are the
\* parsed entries of the array read, in array order, each with the id of
\* the Group and its position in the array; nothing the Group held before
\* is kept.
C36_ReadReplacesDatasets ==
  [][(~readDone /\ readDone' /\ readResult')
       => LET parsed == ParsedEntries(readArg.datasets)
          IN /\ Len(m_datasets') = Len(parsed)
             /\ \A k \in 1..Len(parsed) :
                  m_datasets'[k] = [groupId |-> m_groupId,
                                    index |-> parsed[k] - 1]]_vars

\* the Group held two datasets from its earlier read and holds, after a
\* read that returned true, the one parsed entry of the new array
C36_Witness ==
  /\ readDone
  /\ readResult
  /\ readBefore.datasets = <<"valid", "valid">>
  /\ readArg.datasets = <<"invalid", "valid">>
  /\ m_datasets = <<[groupId |-> m_groupId, index |-> 1]>>

(***************************************************************************)
(* Properties of the multiplot widget.                                     *)
(***************************************************************************)
\* C37: calculateAutoScaleRange emits rangeChanged if and only if minY or
\* maxY is not what it was before the call.
C37_EmitsIffRangeDiffers ==
  [][(plotOp' = "calculateAutoScaleRange")
       => (rangeChanged' <=> (m_minY' # m_minY \/ m_maxY' # m_maxY))]_vars

\* C38: the palette position onThemeChanged reads for a dataset is its
\* field index less one, wrapped around the size of the palette, so it lies
\* in [0, size); no remainder by zero is taken.
C38_PalettePositionInRange ==
  /\ ~dividedByZero
  /\ Len(widget_colors) > 0 =>
       \A i \in 1..Len(plotDatasets) :
         /\ colorReads[i] >= 0
         /\ colorReads[i] < Len(widget_colors)
         /\ colorReads[i] = (plotDatasets[i].index - 1) % Len(widget_colors)

====
